---- MODULE Spec2Model ----
(***************************************************************************)
(* Master side of the 3x-ui cluster control plane: the store (accounts,    *)
(* account-client associations, client traffics, inbounds, per-slave       *)
(* rows), the connection registry, the config assembler and push, the      *)
(* traffic ingest with its policy pass, and the cascaded lifecycle         *)
(* operations of accounts and slaves.                                      *)
(***************************************************************************)
EXTENDS Integers, FiniteSets, Sequences, TLC

(* ------------------------------ bounds --------------------------------- *)
\* number of account ids the admin may create (ids are auto-increment)
MaxAccounts == 1
\* reports whose counters the store holds at one time
MaxReports == 2
\* number of admin requests in one behaviour
MaxOps == 3
\* system-stats intervals a connection is counted silent for
MaxIdle == 3
\* outbound rules the admin adds to one template
MaxOutbounds == 1
\* entries of the online_clients list of a report
MaxOnline == 2

(* --------------------------- value domains ----------------------------- *)
SlaveIds == {1, 2}
InboundIds == {1, 2}
\* the connectSlave handlers that can run at one time
ConnIds == {1, 2}
\* the AddClientToAccount requests that can run at one time
CallIds == {1, 2}
Emails == {"u1", "u2"}
AccountIds == 1 .. MaxAccounts
\* bytes per GB, as the quota checks compute it
GB == 1024 * 1024 * 1024
\* byte delta carried by each counter (uplink, downlink) of a traffic report
Delta == GB \div 4
\* cap of the bytes the client_traffics rows hold
MaxBytes == MaxReports * 2 * Delta
\* milliseconds per second
MsPerSec == 1000
\* instants (ms) the clock takes
Times == {1500, 2000}
\* client quotas (bytes) and expiries; 0 = unlimited, never
ClientTotals == {0, 2 * Delta}
ClientExpiryTimes == {0, 1200}
\* account quota (GB) and expiry of a request; 0 = unlimited, never
AccountLimits ==
    {[totalGB |-> 0, expiryTime |-> 0], [totalGB |-> 1, expiryTime |-> 0],
     [totalGB |-> 0, expiryTime |-> 1700]}

VARIABLES
    slaves,            \* ids of the rows of table slaves
    slaveSettings,     \* rows of slave_settings (xrayTemplateConfig): slave id ->
                       \* the number of outbound rules of its template
    slaveCerts,        \* rows of slave_certs: <<slave_id, domain>>
    outboundTraffics,  \* rows of outbound_traffics: <<slave_id, tag>> -> [up, down]
    inbounds,          \* rows of inbounds: id -> [slaveId, enable, clients,
                       \* up, down]; the tag of row i is i
    clientTraffics,    \* rows of client_traffics: email -> row
    accounts,          \* rows of accounts: id -> row
    accountClients,    \* rows of account_clients
    nextAccountId,     \* auto-increment of accounts.id
    slaveConns,        \* registry: slave id -> its connection (index in wsConns)
    wsConns,           \* the websocket connection of each connectSlave handler,
                       \* with the position of the handler
    status,            \* column status of the rows of table slaves
    pushes,            \* the PushConfig calls in progress
    now,               \* wall clock, ms
    pass,              \* the ProcessTrafficStats call in progress
    ops,               \* admin requests served so far
    ingests,           \* slave id -> its ProcessTrafficStats call, followed
                       \* statement by statement through the traffic counters:
                       \* the inbound tags its report named, the tags still
                       \* to process, and the outbound row it has loaded
    calls,             \* the AddClientToAccount transactions in progress
    edits,             \* the AddOutbound requests in progress: the slave and
                       \* the outbounds array the request has built
    secrets,           \* column secret of the rows of table slaves: slave id
                       \* -> secret, for every row ever created
    slaveOnlineClients, \* map slaveOnlineClients: slave id -> the list of
                       \* online emails of its last report that carried one
    slaveStats,        \* columns lastSeen (s) and systemStats of the rows of
                       \* table slaves (systemStats: the kind of message its
                       \* text was taken from), with the type and the time
                       \* of the last message read off the slave's link
    agent,             \* the agent process of one slave: the position of
                       \* its connect loop and of its heartbeat goroutine,
                       \* its connection, channel done and Xray process
    last               \* the outcome of the handler this state is the result of

vars == <<slaves, slaveSettings, slaveCerts, outboundTraffics, inbounds,
          clientTraffics, accounts, accountClients, nextAccountId, slaveConns,
          wsConns, status, pushes, now, pass, ops, ingests, calls, edits, secrets,
          slaveOnlineClients, slaveStats, agent, last>>

\* the state only the statement-level handlers change
others == <<ingests, calls, edits, secrets, agent, slaveOnlineClients, slaveStats>>

\* the same but for the online lists and the columns of slaves
handlers == <<ingests, calls, edits, secrets, agent>>

\* the connection layer besides the registry
link == <<wsConns, status, pushes>>

store == <<slaves, slaveSettings, slaveCerts, outboundTraffics, inbounds,
           clientTraffics, accounts, accountClients>>

(* ------------------------------ helpers -------------------------------- *)
RECURSIVE SumOver(_, _, _)
\* SUM(f[k].fld) over the keys ks
SumOver(f, ks, fld) ==
    IF ks = {} THEN 0
    ELSE LET k == CHOOSE x \in ks : TRUE
         IN  f[k][fld] + SumOver(f, ks \ {k}, fld)

Drop(f, ks) == [k \in DOMAIN f \ ks |-> f[k]]

Min(S) == CHOOSE x \in S : \A y \in S : x <= y

NoPass == [pc |-> "idle", slave |-> 0, users |-> {}, hit |-> FALSE,
           todo |-> {}, cur |-> 0, flagged |-> {}, pre |-> <<>>]

\* no ProcessTrafficStats call of a slave is in its counters
NoIngest == [pc |-> "idle", named |-> {}, inbounds |-> {}, outbounds |-> {},
             row |-> <<>>, online |-> [given |-> FALSE, list |-> <<>>],
             user |-> <<>>]

\* the columns of a row of slaves nothing has been received for; AddSlave
\* has set lastSeen to the second the row was created in
NoStats == [lastSeen |-> 1, systemStats |-> "", type |-> "none", at |-> 0]

\* the admin requests that edit a template at the same time
EditIds == {1, 2}

\* no AddOutbound call is open for a request
NoEdit == [pc |-> "idle", slave |-> 0, outbounds |-> 0]

\* no AddClientToAccount transaction is open for a request
NoCall == [pc |-> "idle", account |-> 0, inbound |-> 0, email |-> "",
           enable |-> FALSE, clientExists |-> FALSE]

NoLast == [op |-> "none", id |-> 0, ok |-> TRUE, pushed |-> {}, cfg |-> <<>>,
           fail |-> "none"]

(* ----------------------- inbound surface (lookups) --------------------- *)
\* InboundService.GetInbound: the row, or an error when there is none
HasInbound(inb, i) == i \in DOMAIN inb

\* InboundService.GetClients: the emails of settings.clients[]
GetClients(inb, i) == inb[i].clients

\* InboundService.GetInboundsForSlave
GetInboundsForSlave(inb, s) == {i \in DOMAIN inb : inb[i].slaveId = s}

(* ------------------------------ assembler ------------------------------ *)
\* filterDisabledClients with the account flag ignored
filterDisabledClientsNoAccount(inb, ct, acc, i) ==
    LET rows == {e \in DOMAIN ct : ct[e].inboundId = i}
    IN  {e \in GetClients(inb, i) : ~(e \in rows /\ ~ct[e].enable)}

\* filterDisabledClients: the clients of inbound i kept in the rendered block
filterDisabledClients(inb, ct, acc, i) ==
    LET rows == {e \in DOMAIN ct : ct[e].inboundId = i}
        accountIds == {ct[e].accountId : e \in {x \in rows : ct[x].accountId > 0}}
        accountEnableMap == [a \in accountIds \cap DOMAIN acc |-> acc[a].enable]
        finalEnabled(e) ==
            IF ct[e].accountId > 0
            THEN IF ct[e].accountId \in DOMAIN accountEnableMap
                 THEN accountEnableMap[ct[e].accountId]
                 ELSE ct[e].enable
            ELSE ct[e].enable
    IN  {e \in GetClients(inb, i) : ~(e \in rows /\ ~finalEnabled(e))}

\* PushConfig steps 3-4: the <<inbound, client>> pairs of the assembled config
Assemble(inb, ct, acc, s) ==
    {<<i, e>> \in InboundIds \X Emails :
        /\ i \in GetInboundsForSlave(inb, s)
        /\ inb[i].enable
        /\ e \in filterDisabledClients(inb, ct, acc, i)}

\* the outcome of the PushConfig calls of one handler: the slaves a push was
\* attempted to, and the config written to each one that is connected
Pushes(targets, conns, inb, ct, acc) ==
    [pushed |-> targets,
     cfg |-> [s \in targets \cap conns |-> Assemble(inb, ct, acc, s)]]

\* GetXrayConfigForSlave: the outbound rules of the template of slave s, those
\* of the global template when s has no row
GetXrayConfigForSlave(ss, s) == IF s \in DOMAIN ss THEN ss[s] ELSE 0

\* PushConfig steps 1-5: the template, the inbound blocks and the clients of
\* the final config
XrayConfig(ss, inb, ct, acc, s) ==
    [outbounds |-> GetXrayConfigForSlave(ss, s),
     inbounds |-> {i \in GetInboundsForSlave(inb, s) : inb[i].enable},
     clients |-> Assemble(inb, ct, acc, s)]

(* ------------------------------ registry ------------------------------- *)
NoFrame == [type |-> "none", cfg |-> <<>>]

\* the connection an upgrade produces for slave s while the store would give
\* it the config cfg; its handler is about to run the initial PushConfig
NewConn(s, cfg) ==
    [slave |-> s, pc |-> "push", open |-> TRUE, closed |-> FALSE, wfail |-> FALSE,
     attached |-> cfg, beat |-> FALSE, idle |-> 0,
     first |-> NoFrame, lastf |-> NoFrame]

\* conn.Close() on the connection slaveConns holds for s, if it holds one
CloseConn(sc, cs, s) ==
    IF s \in DOMAIN sc THEN [cs EXCEPT ![sc[s]].closed = TRUE] ELSE cs

\* an AddSlaveConn that registers c and leaves the old connection open
AddSlaveConnNoClose(sc, cs, s, c) ==
    [slaveConns |-> [k \in DOMAIN sc \cup {s} |-> IF k = s THEN c ELSE sc[k]],
     conns |-> cs]

\* AddSlaveConn: closes the connection registered for s and registers c
AddSlaveConn(sc, cs, s, c) ==
    [slaveConns |-> [k \in DOMAIN sc \cup {s} |-> IF k = s THEN c ELSE sc[k]],
     conns |-> CloseConn(sc, cs, s)]

\* RemoveSlaveConn: closes and unregisters whatever is registered for s (its
\* delete(slaveOnlineClients, slaveId) is written out in the callers)
RemoveSlaveConn(sc, cs, s) ==
    [slaveConns |-> Drop(sc, {s}), conns |-> CloseConn(sc, cs, s)]

\* no connection, or one whose handler has returned
Gone(s) == [NewConn(s, <<>>) EXCEPT !.pc = "done", !.open = FALSE, !.closed = TRUE]

\* a connection whose handler sits in its read loop
Attached(s) == [NewConn(s, <<>>) EXCEPT !.pc = "read"]

(* --------------------------- account service --------------------------- *)
Assocs(ac, a) == {x \in ac : x.account_id = a}

AssocEmails(ac, a) == {x.client_email : x \in Assocs(ac, a)}

\* GetAccountTrafficUsage: live up+down over the rows of the associated emails
GetAccountTrafficUsage(ac, ct, a) ==
    LET es == AssocEmails(ac, a) \cap DOMAIN ct
    IN  SumOver(ct, es, "up") + SumOver(ct, es, "down")

\* GetAccountAffectedSlaves
GetAccountAffectedSlaves(ac, inb, a) ==
    LET inboundIds == {x.inbound_id : x \in Assocs(ac, a)}
    IN  {inb[i].slaveId : i \in {j \in inboundIds \cap DOMAIN inb : inb[j].slaveId > 0}}

(* -------------------------------- Init --------------------------------- *)

\* the agent process before Run: no connection, no Xray process
NoAgent ==
    [pc |-> "dial", conn |-> "none", done |-> "open", hb |-> "off",
     readErr |-> FALSE, writeErr |-> FALSE, process |-> 0, running |-> FALSE]
\* the inbounds and clients created through the inbound surface
InitInbounds ==
    (1 :> [slaveId |-> 1, enable |-> TRUE, clients |-> {"u1"}, up |-> 0, down |-> 0]) @@
    (2 :> [slaveId |-> 2, enable |-> TRUE, clients |-> {"u2"}, up |-> 0, down |-> 0])

InboundOf(e) == CHOOSE i \in DOMAIN InitInbounds : e \in InitInbounds[i].clients

\* the client_traffics row the inbound surface creates for a client
NewTraffic(e, total, expiry) ==
    [inboundId |-> InboundOf(e), accountId |-> 0, enable |-> TRUE,
     up |-> 0, down |-> 0, total |-> total, expiryTime |-> expiry]

Init ==
    /\ slaves = SlaveIds
    /\ slaveSettings = [s \in SlaveIds |-> 0]
    /\ slaveCerts = {}
    /\ outboundTraffics = <<>>
    /\ inbounds = InitInbounds
    /\ \E t \in ClientTotals, x \in ClientExpiryTimes :
          /\ (t = 0 \/ x = 0)
          /\ clientTraffics = ("u1" :> NewTraffic("u1", t, x))
    /\ accounts = <<>>
    /\ accountClients = {}
    /\ nextAccountId = 1
    /\ slaveConns = [s \in SlaveIds |-> s]
    /\ wsConns = [c \in ConnIds |-> Attached(c)]
    /\ status = [s \in SlaveIds |-> "online"]
    /\ pushes = {}
    /\ now = 1500
    /\ pass = NoPass
    /\ ops = 0
    /\ ingests = [s \in SlaveIds |-> NoIngest]
    /\ calls = [k \in CallIds |-> NoCall]
    /\ edits = [k \in EditIds |-> NoEdit]
    /\ secrets = [s \in SlaveIds |-> s]
    /\ agent = NoAgent
    /\ slaveOnlineClients = <<>>
    /\ slaveStats = [s \in SlaveIds |-> NoStats]
    /\ last = NoLast

Idle == pass.pc = "idle"

Admin == Idle /\ ops < MaxOps /\ ops' = ops + 1

Done(op, id, ok, p) ==
    last' = [op |-> op, id |-> id, ok |-> ok, pushed |-> p.pushed, cfg |-> p.cfg,
             fail |-> "none"]

NoPush == [pushed |-> {}, cfg |-> <<>>]

(* -------------------------- account operations ------------------------- *)
\* AccountController.addAccount -> AccountService.AddAccount
AddAccount ==
    /\ Admin
    /\ nextAccountId <= MaxAccounts
    /\ \E en \in BOOLEAN, lim \in AccountLimits :
          accounts' = accounts @@
              (nextAccountId :> [enable |-> en, totalGB |-> lim.totalGB,
                                 expiryTime |-> lim.expiryTime, up |-> 0, down |-> 0])
    /\ nextAccountId' = nextAccountId + 1
    /\ Done("AddAccount", nextAccountId, TRUE, NoPush)
    /\ UNCHANGED <<slaves, slaveSettings, slaveCerts, outboundTraffics, inbounds,
                   clientTraffics, accountClients, slaveConns, link, now, pass, others>>

\* the cascade of UpdateAccount: enable of the rows of the associated emails
Cascade(ct, emails, en) ==
    [e \in DOMAIN ct |-> IF e \in emails THEN [ct[e] EXCEPT !.enable = en] ELSE ct[e]]

\* the quota guard of UpdateAccount without the comparison against the limit
QuotaExceededNever(ac, ct, a, totalGB) == FALSE

\* UpdateAccount "Scenario 4": the request's quota is exhausted by live usage
QuotaExceeded(ac, ct, a, totalGB) ==
    totalGB > 0 /\ GetAccountTrafficUsage(ac, ct, a) >= totalGB * GB

\* AccountController.updateAccount -> AccountService.UpdateAccount, then a
\* push to every affected slave. tx.Save writes every column of the bound
\* request, its counters included: the request echoes the stored up/down
\* (echo) or leaves them out (zero values)
UpdateAccount ==
    /\ Admin
    /\ \E a \in AccountIds, en \in BOOLEAN, lim \in AccountLimits, echo \in BOOLEAN :
          IF a \notin DOMAIN accounts
          THEN /\ Done("UpdateAccount", a, FALSE, NoPush)
               /\ UNCHANGED <<accounts, clientTraffics>>
          ELSE IF en /\ ~accounts[a].enable /\ QuotaExceeded(accountClients, clientTraffics, a, lim.totalGB)
          THEN /\ Done("UpdateAccount", a, FALSE, NoPush)
               /\ UNCHANGED <<accounts, clientTraffics>>
          ELSE /\ accounts' = [accounts EXCEPT ![a] =
                      [enable |-> en, totalGB |-> lim.totalGB,
                       expiryTime |-> lim.expiryTime,
                       up |-> IF echo THEN accounts[a].up ELSE 0,
                       down |-> IF echo THEN accounts[a].down ELSE 0]]
               /\ clientTraffics' =
                      IF en # accounts[a].enable
                      THEN Cascade(clientTraffics, AssocEmails(accountClients, a), en)
                      ELSE clientTraffics
               /\ Done("UpdateAccount", a, TRUE,
                       Pushes(GetAccountAffectedSlaves(accountClients, inbounds, a),
                              DOMAIN slaveConns, inbounds, clientTraffics', accounts'))
    /\ UNCHANGED <<slaves, slaveSettings, slaveCerts, outboundTraffics, inbounds,
                   accountClients, nextAccountId, slaveConns, link, now, pass, others>>

\* delAccount without the reset of client_traffics.account_id
DelAccountKeepLinks ==
    /\ Admin
    /\ \E a \in AccountIds :
          /\ accountClients' = accountClients \ Assocs(accountClients, a)
          /\ clientTraffics' = clientTraffics
          /\ accounts' = Drop(accounts, {a})
          /\ Done("DelAccount", a, TRUE,
                  Pushes(GetAccountAffectedSlaves(accountClients, inbounds, a),
                         DOMAIN slaveConns, inbounds, clientTraffics', accounts'))
    /\ UNCHANGED <<slaves, slaveSettings, slaveCerts, outboundTraffics, inbounds,
                   nextAccountId, slaveConns, link, now, pass, others>>

\* AccountController.delAccount -> AccountService.DelAccount; the affected
\* slaves are computed before the delete
DelAccount ==
    /\ Admin
    /\ \E a \in AccountIds :
          /\ accountClients' = accountClients \ Assocs(accountClients, a)
          /\ clientTraffics' =
                [e \in DOMAIN clientTraffics |->
                    IF clientTraffics[e].accountId = a
                    THEN [clientTraffics[e] EXCEPT !.accountId = 0]
                    ELSE clientTraffics[e]]
          /\ accounts' = Drop(accounts, {a})
          /\ Done("DelAccount", a, TRUE,
                  Pushes(GetAccountAffectedSlaves(accountClients, inbounds, a),
                         DOMAIN slaveConns, inbounds, clientTraffics', accounts'))
    /\ UNCHANGED <<slaves, slaveSettings, slaveCerts, outboundTraffics, inbounds,
                   nextAccountId, slaveConns, link, now, pass, others>>

\* AddClientToAccount: the client_traffics row linked to (or created for) the email
LinkTraffic(ct, acc, a, i, e, clientEnable) ==
    IF e \in DOMAIN ct
    THEN [ct EXCEPT ![e].accountId = a]
    ELSE ct @@ (e :> [inboundId |-> i, accountId |-> a, enable |-> clientEnable,
                      up |-> 0, down |-> 0, total |-> 0, expiryTime |-> 0])

\* AccountController.addClientToAccount -> AccountService.AddClientToAccount,
\* then a push to the slave of the request's inbound
AddClientToAccount ==
    /\ Admin
    /\ \E a \in AccountIds, i \in InboundIds, e \in Emails, clientEnable \in BOOLEAN :
          IF \/ \E x \in accountClients : x.client_email = e
             \/ ~HasInbound(inbounds, i)
             \/ (e \notin DOMAIN clientTraffics /\ e \notin GetClients(inbounds, i))
          THEN /\ Done("AddClientToAccount", a, FALSE, NoPush)
               /\ UNCHANGED <<accountClients, clientTraffics>>
          ELSE /\ accountClients' = accountClients \cup
                      {[account_id |-> a, inbound_id |-> i, client_email |-> e]}
               /\ clientTraffics' = LinkTraffic(clientTraffics, accounts, a, i, e, clientEnable)
               /\ Done("AddClientToAccount", a, TRUE,
                       Pushes(IF inbounds[i].slaveId > 0 THEN {inbounds[i].slaveId} ELSE {},
                              DOMAIN slaveConns, inbounds, clientTraffics', accounts))
    /\ UNCHANGED <<slaves, slaveSettings, slaveCerts, outboundTraffics, inbounds,
                   accounts, nextAccountId, slaveConns, link, now, pass, others>>

\* AddClientToAccount ends with an error: the transaction is rolled back
Rejected(k, why) ==
    /\ calls' = [calls EXCEPT ![k] = NoCall]
    /\ last' = [op |-> "AddClientToAccount", id |-> calls[k].account, ok |-> FALSE,
                pushed |-> {}, cfg |-> <<>>, fail |-> why]
    /\ UNCHANGED <<accountClients, clientTraffics>>

\* AddClientToAccount, from the start of the transaction to the lookup of the
\* client in the inbound. A query of First that fails (rerr) leaves err # nil
\* like one that finds no row, and the function goes on
AddClientCheck ==
    /\ \E k \in CallIds, a \in AccountIds, i \in InboundIds, e \in Emails,
          clientEnable \in BOOLEAN, rerr \in BOOLEAN :
          /\ calls[k].pc = "idle"
          /\ LET c == [pc |-> "create", account |-> a, inbound |-> i, email |-> e,
                       enable |-> clientEnable,
                       clientExists |-> HasInbound(inbounds, i) /\ e \in GetClients(inbounds, i)]
             IN  IF ~rerr /\ \E x \in accountClients : x.client_email = e
                 THEN Rejected(k, "associated")
                 ELSE IF ~HasInbound(inbounds, i)
                 THEN Rejected(k, "noinbound")
                 ELSE /\ calls' = [calls EXCEPT ![k] = c]
                      /\ last' = NoLast
                      /\ UNCHANGED <<accountClients, clientTraffics>>
    /\ UNCHANGED <<slaves, slaveSettings, slaveCerts, outboundTraffics, inbounds,
                   accounts, nextAccountId, slaveConns, link, now, pass, ops, ingests,
                   edits, secrets, agent, slaveOnlineClients, slaveStats>>

\* the INSERT into account_clients with no unique index on client_email
CreateErrorNoIndex(ac, cs, k) ==
    IF \E j \in DOMAIN cs : j # k /\ cs[j].pc = "commit" THEN "busy" ELSE "none"

\* the error of the INSERT into account_clients: the database has one writer
\* at a time, and client_email is unique
CreateError(ac, cs, k) ==
    IF \E j \in DOMAIN cs : j # k /\ cs[j].pc = "commit" THEN "busy"
    ELSE IF \E x \in ac : x.client_email = cs[k].email THEN "unique"
    ELSE "none"

\* AddClientToAccount, the writes of the transaction: tx.Create(assoc), then
\* the client_traffics row is looked up and linked or created
AddClientCreate ==
    /\ \E k \in CallIds :
          /\ calls[k].pc = "create"
          /\ LET err == CreateError(accountClients, calls, k)
             IN  IF err # "none" THEN Rejected(k, err)
                 ELSE IF calls[k].email \notin DOMAIN clientTraffics /\ ~calls[k].clientExists
                 THEN Rejected(k, "noclient")
                 ELSE /\ calls' = [calls EXCEPT ![k].pc = "commit"]
                      /\ last' = NoLast
                      /\ UNCHANGED <<accountClients, clientTraffics>>
    /\ UNCHANGED <<slaves, slaveSettings, slaveCerts, outboundTraffics, inbounds,
                   accounts, nextAccountId, slaveConns, link, now, pass, ops, ingests,
                   edits, secrets, agent, slaveOnlineClients, slaveStats>>

\* the transaction of AddClientToAccount commits, or the commit fails and it is
\* rolled back; after a commit the controller pushes to the slave of the inbound
AddClientCommit ==
    /\ \E k \in CallIds, cerr \in BOOLEAN :
          /\ calls[k].pc = "commit"
          /\ LET c == calls[k]
             IN  IF cerr THEN Rejected(k, "busy")
                 ELSE /\ accountClients' = accountClients \cup
                            {[account_id |-> c.account, inbound_id |-> c.inbound,
                              client_email |-> c.email]}
                      /\ clientTraffics' = LinkTraffic(clientTraffics, accounts, c.account,
                                                       c.inbound, c.email, c.enable)
                      /\ calls' = [calls EXCEPT ![k] = NoCall]
                      /\ Done("AddClientToAccount", c.account, TRUE,
                              Pushes(IF HasInbound(inbounds, c.inbound)
                                        /\ inbounds[c.inbound].slaveId > 0
                                     THEN {inbounds[c.inbound].slaveId} ELSE {},
                                     DOMAIN slaveConns, inbounds, clientTraffics', accounts))
    /\ UNCHANGED <<slaves, slaveSettings, slaveCerts, outboundTraffics, inbounds,
                   accounts, nextAccountId, slaveConns, link, now, pass, ops, ingests,
                   edits, secrets, agent, slaveOnlineClients, slaveStats>>

\* AccountController.removeClientFromAccount -> RemoveClientFromAccount
RemoveClientFromAccount ==
    /\ Admin
    /\ \E a \in AccountIds, e \in Emails :
          /\ accountClients' =
                {x \in accountClients : ~(x.account_id = a /\ x.client_email = e)}
          /\ clientTraffics' =
                IF e \in DOMAIN clientTraffics
                THEN [clientTraffics EXCEPT ![e].accountId = 0]
                ELSE clientTraffics
          /\ Done("RemoveClientFromAccount", a, TRUE,
                  Pushes(GetAccountAffectedSlaves(accountClients, inbounds, a),
                         DOMAIN slaveConns, inbounds, clientTraffics', accounts))
    /\ UNCHANGED <<slaves, slaveSettings, slaveCerts, outboundTraffics, inbounds,
                   accounts, nextAccountId, slaveConns, link, now, pass, others>>

\* ResetAccountTraffic: the client_traffics rows after the reset of account a
ResetRows(ct, a) ==
    [e \in DOMAIN ct |->
        IF ct[e].accountId = a
        THEN [ct[e] EXCEPT !.up = 0, !.down = 0, !.enable = TRUE]
        ELSE ct[e]]

\* AccountController.resetAccountTraffic -> AccountService.ResetAccountTraffic,
\* then a push to every slave the service returned
ResetAccountTraffic ==
    /\ Admin
    /\ \E a \in AccountIds :
          /\ accounts' =
                IF a \in DOMAIN accounts
                THEN [accounts EXCEPT ![a].up = 0, ![a].down = 0, ![a].enable = TRUE]
                ELSE accounts
          /\ clientTraffics' = ResetRows(clientTraffics, a)
          /\ Done("ResetAccountTraffic", a, TRUE,
                  Pushes(GetAccountAffectedSlaves(accountClients, inbounds, a),
                         DOMAIN slaveConns, inbounds, clientTraffics', accounts'))
    /\ UNCHANGED <<slaves, slaveSettings, slaveCerts, outboundTraffics, inbounds,
                   accountClients, nextAccountId, slaveConns, link, now, pass, others>>

(* ------------------------------- reports ------------------------------- *)
\* ProcessCertReport -> BatchUpsertCerts for one reported domain
CertReport ==
    /\ Idle
    /\ \E s \in DOMAIN slaveConns :
          /\ <<s, "d1">> \notin slaveCerts
          /\ slaveCerts' = slaveCerts \cup {<<s, "d1">>}
          /\ Done("cert_report", s, TRUE, NoPush)
    /\ UNCHANGED <<slaves, slaveSettings, outboundTraffics, inbounds, clientTraffics,
                   accounts, accountClients, nextAccountId, slaveConns, link, now, pass, ops,
                   others>>

\* the domains a cert_report names
Domains == {"d1", "d2", "d3"}

\* BatchUpsertCerts(slaveId, certs): per reported domain, the row of
\* (slave_id, domain) is saved when there is one and created otherwise
BatchUpsertCerts(sc, s, domains) == sc \cup {<<s, d>> : d \in domains}

\* ProcessCertReport(slaveId, data): the certs of the report with a domain and
\* both paths go to BatchUpsertCerts; a report with none changes nothing
ProcessCertReport ==
    /\ Idle
    /\ \E s \in DOMAIN slaveConns, domains \in SUBSET Domains :
          /\ slaveCerts' = BatchUpsertCerts(slaveCerts, s, domains)
          /\ last' = [op |-> "ProcessCertReport", id |-> s, ok |-> TRUE,
                      pushed |-> {}, cfg |-> <<>>, fail |-> "none",
                      domains |-> domains]
    /\ UNCHANGED <<slaves, slaveSettings, outboundTraffics, inbounds, clientTraffics,
                   accounts, accountClients, nextAccountId, slaveConns, link, now, pass, ops,
                   others>>

\* the wall clock advances to its next instant
Tick ==
    /\ Idle
    /\ \E t \in Times : t > now /\ (\A u \in Times : u > now => t <= u) /\ now' = t
    /\ last' = NoLast
    /\ UNCHANGED <<store, nextAccountId, slaveConns, link, pass, ops, others>>

(* ----------------------------- slave delete ---------------------------- *)
\* where the storage may fail during delSlave: nowhere, in the client_traffics
\* delete (whose error DeleteSlave only logs), in a statement whose error it
\* returns, or at the commit
Fails == {"none", "traffic", "stmt", "commit"}

\* SlaveController.delSlave: DeleteAllSettingsForSlave, then the DeleteSlave
\* transaction, whose closure ends by spawning RemoveSlaveConn
delSlave ==
    /\ Admin
    /\ \E s \in SlaveIds, fail \in Fails :
          LET inbs == GetInboundsForSlave(inbounds, s)
              emails == UNION {GetClients(inbounds, i) : i \in inbs}
              committed == fail \in {"none", "traffic"}
              closureDone == fail # "stmt"
          IN  /\ slaveSettings' = Drop(slaveSettings, {s})
              /\ IF committed
                 THEN /\ accountClients' =
                            {x \in accountClients : x.client_email \notin emails}
                      /\ clientTraffics' =
                            IF fail = "traffic" THEN clientTraffics
                            ELSE Drop(clientTraffics,
                                      {e \in DOMAIN clientTraffics :
                                          clientTraffics[e].inboundId \in inbs})
                      /\ inbounds' = Drop(inbounds, inbs)
                      /\ slaveCerts' = {c \in slaveCerts : c[1] # s}
                      /\ outboundTraffics' =
                            Drop(outboundTraffics,
                                 {k \in DOMAIN outboundTraffics : k[1] = s})
                      /\ slaves' = slaves \ {s}
                 ELSE UNCHANGED <<accountClients, clientTraffics, inbounds,
                                  slaveCerts, outboundTraffics, slaves>>
              /\ LET r == RemoveSlaveConn(slaveConns, wsConns, s)
                 IN  IF closureDone
                     THEN /\ slaveConns' = r.slaveConns
                          /\ wsConns' = r.conns
                          /\ slaveOnlineClients' = Drop(slaveOnlineClients, {s})
                     ELSE UNCHANGED <<slaveConns, wsConns, slaveOnlineClients>>
              /\ last' = [op |-> "delSlave", id |-> s, ok |-> committed,
                          pushed |-> {}, cfg |-> <<>>, fail |-> fail]
    /\ UNCHANGED <<accounts, nextAccountId, status, pushes, now, pass, handlers,
                   slaveStats>>

(* ------------------------------- ingest -------------------------------- *)
\* the users[] entry of a report: both counters of one client
UserEntry(e) == [email |-> e, uplink |-> Delta, downlink |-> Delta]

\* the bytes accumulated in client_traffics
StoredBytes(ct) == SumOver(ct, DOMAIN ct, "up") + SumOver(ct, DOMAIN ct, "down")

RECURSIVE AddUserTraffic(_, _)
\* ProcessTrafficStats, per-user counters: the rows of the reported emails
AddUserTraffic(ct, users) ==
    IF users = <<>> THEN ct
    ELSE LET u == Head(users)
         IN  AddUserTraffic(
                IF u.email \in DOMAIN ct
                THEN [ct EXCEPT ![u.email].up = @ + u.uplink,
                                ![u.email].down = @ + u.downlink]
                ELSE ct,
                Tail(users))

\* ProcessTrafficStats, account sync: up/down of the accounts of the reported
\* users, recomputed as the sums over client_traffics.account_id
SyncAccounts(acc, ct, users) ==
    LET emails == {users[k].email : k \in DOMAIN users} \cap DOMAIN ct
        ids == {ct[e].accountId : e \in {x \in emails : ct[x].accountId > 0}}
        rows(a) == {e \in DOMAIN ct : ct[e].accountId = a}
    IN  [a \in DOMAIN acc |->
            IF a \in ids
            THEN [acc[a] EXCEPT !.up = SumOver(ct, rows(a), "up"),
                                !.down = SumOver(ct, rows(a), "down")]
            ELSE acc[a]]

\* ProcessTrafficStats, outbound counters: FirstOrCreate on (tag, slave_id),
\* then the deltas added
AddOutboundTraffic(ob, s, outbounds) ==
    IF outbounds = {} THEN ob
    ELSE [k \in DOMAIN ob \cup {<<s, t>> : t \in outbounds} |->
            LET row == IF k \in DOMAIN ob THEN ob[k] ELSE [up |-> 0, down |-> 0]
            IN  IF k[1] = s /\ k[2] \in outbounds
                THEN [up |-> row.up + Delta, down |-> row.down + Delta]
                ELSE row]

\* the instant checkAndDisableInvalidClients compares expiry_time with
NowSeconds(t) == (t \div MsPerSec) * MsPerSec

\* the per-client limit test with the quota compared strictly
ClientInvalidStrict(row, t) ==
    \/ (row.total > 0 /\ row.up + row.down > row.total)
    \/ (row.expiryTime > 0 /\ row.expiryTime <= NowSeconds(t))

\* the WHERE clause of checkAndDisableInvalidClients on one row
ClientInvalid(row, t) ==
    \/ (row.total > 0 /\ row.up + row.down >= row.total)
    \/ (row.expiryTime > 0 /\ row.expiryTime <= NowSeconds(t))

\* the rows of checkAndDisableInvalidClients with "AND enable = ?" left out
InvalidClientsAnyFlag(inb, ct, s, t) ==
    {e \in DOMAIN ct :
        /\ ct[e].inboundId \in GetInboundsForSlave(inb, s)
        /\ ClientInvalid(ct[e], t)}

\* checkAndDisableInvalidClients(slaveId): the rows its UPDATE matches
InvalidClients(inb, ct, s, t) ==
    {e \in DOMAIN ct :
        /\ ct[e].inboundId \in GetInboundsForSlave(inb, s)
        /\ ClientInvalid(ct[e], t)
        /\ ct[e].enable}

\* checkAndDisableInvalidClients(slaveId): client_traffics after its UPDATE
checkAndDisableInvalidClients(inb, ct, s, t) ==
    [e \in DOMAIN ct |->
        IF e \in InvalidClients(inb, ct, s, t)
        THEN [ct[e] EXCEPT !.enable = FALSE] ELSE ct[e]]

\* the account limit test with the quota compared strictly
OverLimitStrict(ac, ct, acc, a) ==
    GetAccountTrafficUsage(ac, ct, a) > acc[a].totalGB * GB

\* DisableClientsExceedingAccountLimit: totalUsed >= totalLimit
OverLimit(ac, ct, acc, a) ==
    GetAccountTrafficUsage(ac, ct, a) >= acc[a].totalGB * GB

\* DisableClientsExceedingAccountLimit: the accounts its query lists
LimitList(acc) == {a \in DOMAIN acc : acc[a].totalGB > 0 /\ acc[a].enable}

\* DisableExpiredAccountClients: the accounts its query lists
ExpiryList(acc, t) ==
    {a \in DOMAIN acc :
        acc[a].expiryTime > 0 /\ acc[a].expiryTime <= t /\ acc[a].enable}

\* the slave ids the cascade loops collect for the associations of account a
AssocSlaves(ac, inb, a) ==
    {inb[x.inbound_id].slaveId :
        x \in {y \in Assocs(ac, a) :
                  y.inbound_id \in DOMAIN inb /\ inb[y.inbound_id].slaveId > 0}}

\* ProcessTrafficStats: "if needConfigPush { s.PushConfig(slaveId) }"
PushTargets(p) == IF p.hit \/ p.flagged # {} THEN {p.slave} ELSE {}

\* the policy part of ProcessTrafficStats run on from position p (in the loop
\* of check 2 or of check 3) up to its next committed write: the UPDATE that
\* disables the next account, or the push that ends the handler
Advance(p, acc, ac, ct, inb, conns, t) ==
    LET over == IF p.pc = "limit"
                THEN {a \in p.todo : OverLimit(ac, ct, acc, a)} ELSE {}
        expired == IF p.pc = "limit" THEN ExpiryList(acc, t) ELSE p.todo
    IN  IF over # {}
        THEN [pass |-> [p EXCEPT !.pc = "limitCascade", !.cur = Min(over),
                                 !.todo = over \ {Min(over)}],
              accounts |-> [acc EXCEPT ![Min(over)].enable = FALSE],
              last |-> NoLast]
        ELSE IF expired # {}
        THEN [pass |-> [p EXCEPT !.pc = "expiryCascade", !.cur = Min(expired),
                                 !.todo = expired \ {Min(expired)}],
              accounts |-> [acc EXCEPT ![Min(expired)].enable = FALSE],
              last |-> NoLast]
        ELSE [pass |-> [p EXCEPT !.pc = "done", !.cur = 0, !.todo = {}],
              accounts |-> acc,
              last |-> [op |-> "traffic_stats", id |-> p.slave, ok |-> TRUE,
                        pushed |-> PushTargets(p),
                        cfg |-> Pushes(PushTargets(p), conns, inb, ct, acc).cfg,
                        fail |-> "none"]]

\* ProcessTrafficStats(slaveId, stats): the counters, the account sync, the
\* outbound counters and policy check 1, then checks 2 and 3 up to the first
\* account they disable
ProcessTrafficStats(s, users, outbounds) ==
    LET ct1 == AddUserTraffic(clientTraffics, users)
        acc1 == SyncAccounts(accounts, ct1, users)
        ct2 == checkAndDisableInvalidClients(inbounds, ct1, s, now)
        p == [pc |-> "limit", slave |-> s,
              users |-> {users[k].email : k \in DOMAIN users},
              hit |-> InvalidClients(inbounds, ct1, s, now) # {},
              todo |-> LimitList(acc1), cur |-> 0, flagged |-> {},
              pre |-> [accounts |-> acc1, clientTraffics |-> ct1]]
        adv == Advance(p, acc1, accountClients, ct2, inbounds, DOMAIN slaveConns, now)
    IN  /\ clientTraffics' = ct2
        /\ outboundTraffics' = AddOutboundTraffic(outboundTraffics, s, outbounds)
        /\ accounts' = adv.accounts
        /\ pass' = adv.pass
        /\ last' = adv.last
        /\ UNCHANGED <<slaves, slaveSettings, slaveCerts, inbounds, accountClients,
                       nextAccountId, slaveConns, link, now, ops>>

\* a traffic_stats message with the counters of one client is read off the
\* link of slave s
TrafficStats ==
    /\ Idle
    /\ \E s \in DOMAIN slaveConns, e \in Emails :
          /\ e \in DOMAIN clientTraffics =>
                StoredBytes(clientTraffics) <= MaxBytes - 2 * Delta
          /\ ProcessTrafficStats(s, <<UserEntry(e)>>, {})
    /\ UNCHANGED others

\* a traffic_stats message with the counters of one outbound only; the
\* report that creates the outbound's row (later ones only grow its counters)
OutboundStats ==
    /\ Idle
    /\ \E s \in DOMAIN slaveConns :
          /\ <<s, "direct">> \notin DOMAIN outboundTraffics
          /\ ProcessTrafficStats(s, <<>>, {"direct"})
    /\ UNCHANGED others

\* the association loop of a policy check: the rows of the associated emails
\* are disabled and the slaves of their inbounds collected; the check then
\* runs on to the next account it disables
CascadeStep(at, phase) ==
    /\ pass.pc = at
    /\ LET ct1 == Cascade(clientTraffics, AssocEmails(accountClients, pass.cur), FALSE)
           p == [pass EXCEPT !.pc = phase, !.cur = 0,
                    !.flagged = pass.flagged \cup
                                AssocSlaves(accountClients, inbounds, pass.cur)]
           adv == Advance(p, accounts, accountClients, ct1, inbounds, DOMAIN slaveConns, now)
       IN  /\ clientTraffics' = ct1
           /\ accounts' = adv.accounts
           /\ pass' = adv.pass
           /\ last' = adv.last
    /\ UNCHANGED <<slaves, slaveSettings, slaveCerts, outboundTraffics, inbounds,
                   accountClients, nextAccountId, slaveConns, link, now, ops, others>>

\* the association loop of DisableClientsExceedingAccountLimit
LimitCascade == CascadeStep("limitCascade", "limit")

\* the association loop of DisableExpiredAccountClients
ExpiryCascade == CascadeStep("expiryCascade", "expiry")

\* ProcessTrafficStats returns (the broadcasts to the UI change no state)
Return ==
    /\ pass.pc = "done"
    /\ pass' = NoPass
    /\ last' = NoLast
    /\ UNCHANGED <<store, nextAccountId, slaveConns, link, now, ops, others>>

\* ProcessTrafficStats has returned and the next message of the same slave is
\* a traffic_stats with no counters: the policy checks run again
PolicyAgain ==
    /\ pass.pc = "done"
    /\ ProcessTrafficStats(pass.slave, <<>>, {})
    /\ UNCHANGED others

(* --------------------------- slave connections ------------------------- *)
\* the slave whose connections are followed
LinkSlaves == {1}

\* the secret agent s is installed with; 0 is the secret of no agent
SecretOf(s) == s

\* the secrets a connection attempt presents: that of no row, and those of
\* the slaves followed
Secrets == {0} \cup {SecretOf(s) : s \in LinkSlaves}

\* GetSlaveBySecret with the table ignored
GetSlaveBySecretAnyRow(sl, secret) == {s \in DOMAIN secrets : secrets[s] = secret}

\* GetSlaveBySecret: the rows of the table with this secret
GetSlaveBySecret(sl, secret) == {s \in sl : secrets[s] = secret}

\* UpdateSlaveStatus: UPDATE slaves SET status = v WHERE id = s
UpdateSlaveStatus(st, sl, s, v) == IF s \in sl THEN [st EXCEPT ![s] = v] ELSE st

\* UpdateSlaveStatus(id, status, stats), columns systemStats and lastSeen
UpdateSlaveStats(ss, sl, s, stats, t) ==
    IF s \in sl
    THEN [ss EXCEPT ![s].systemStats = stats, ![s].lastSeen = t \div MsPerSec]
    ELSE ss

LastOp(op, id, ok, fail) ==
    [op |-> op, id |-> id, ok |-> ok, pushed |-> {}, cfg |-> <<>>, fail |-> fail]

\* a PushConfig(s) call that has not read the store yet; by is the connection
\* whose handler makes the call (0: an admin request)
NewPush(s, by) ==
    [slave |-> s, by |-> by, pc |-> "assemble", cfg |-> <<>>]

\* admin requests are served one after the other
AdminSeq == Admin /\ \A p \in pushes : p.by # 0

\* the config the store gives slave s now
Current(s) == XrayConfig(slaveSettings, inbounds, clientTraffics, accounts, s)

\* connectSlave, from the secret lookup to AddSlaveConn
connectSlave ==
    /\ \E secret \in Secrets :
          LET found == GetSlaveBySecret(slaves, secret)
          IN  IF found = {}
              THEN /\ last' = LastOp("connectSlave", secret, FALSE, "unauthorized")
                   /\ UNCHANGED <<slaveConns, wsConns, pushes>>
              ELSE LET s == Min(found)
                       free == {x \in ConnIds : wsConns[x].pc = "done"}
                       c == Min(free)
                       r == AddSlaveConn(slaveConns,
                                         [wsConns EXCEPT ![c] = NewConn(s, Current(s))],
                                         s, c)
                   IN  /\ free # {}
                       /\ slaveConns' = r.slaveConns
                       /\ wsConns' = r.conns
                       /\ pushes' = pushes \cup {NewPush(s, c)}
                       /\ last' = LastOp("connectSlave", s, TRUE, "none")
    /\ UNCHANGED <<store, nextAccountId, status, now, pass, ops, others>>

\* the id the next row of slaves gets (auto-increment)
NextSlaveId(sec) == Cardinality(DOMAIN sec) + 1

\* generateRandomSecret for the row that gets this id: a value no request
\* supplies and no other row is given
generateRandomSecret(id) == Cardinality(SlaveIds) + id

\* SlaveController.addSlave -> SlaveService.AddSlave with the secret of the
\* request (0: none, one is generated), then InitializeSlaveWithDefaults
addSlave ==
    /\ \E secret \in {0} \cup {SecretOf(s) : s \in SlaveIds} :
          LET id == NextSlaveId(secrets)
          IN  /\ id \in SlaveIds
              /\ slaves' = slaves \cup {id}
              /\ secrets' = secrets @@
                    (id :> IF secret = 0 THEN generateRandomSecret(id) ELSE secret)
              /\ status' = [status EXCEPT ![id] = "offline"]
              /\ slaveStats' = [slaveStats EXCEPT ![id] =
                    [NoStats EXCEPT !.lastSeen = now \div MsPerSec]]
              /\ slaveSettings' = Drop(slaveSettings, {id}) @@
                    (id :> GetXrayConfigForSlave(slaveSettings, 0))
              /\ last' = LastOp("addSlave", id, TRUE, "none")
    /\ UNCHANGED <<slaveCerts, outboundTraffics, inbounds, clientTraffics, accounts,
                   accountClients, nextAccountId, slaveConns, wsConns, pushes, now,
                   pass, ops, ingests, calls, edits, agent, slaveOnlineClients>>

\* PushConfig steps 1-5 of one call: the config is assembled from the store
PushAssemble ==
    /\ \E p \in pushes :
          /\ p.pc = "assemble"
          /\ pushes' = (pushes \ {p}) \cup
                {[p EXCEPT !.pc = "write", !.cfg = Current(p.slave)]}
    /\ last' = NoLast
    /\ UNCHANGED <<store, nextAccountId, slaveConns, wsConns, status, now, pass, ops, others>>

\* the frame f arrives on connection c, which keeps the first frame it got
\* and the last config it got
Deliver(cs, c, f) ==
    [cs EXCEPT ![c].lastf = IF f.type = "update_config_full" THEN f ELSE cs[c].lastf,
               ![c].first = IF cs[c].first.type = "none" THEN f ELSE cs[c].first]

\* Send with a slave that has no connection taken as served
SendUnchecked(sc, cs, s, f, werr) ==
    IF s \notin DOMAIN sc THEN [conns |-> cs, err |-> "none"]
    ELSE IF cs[sc[s]].closed \/ ~cs[sc[s]].open \/ cs[sc[s]].wfail \/ werr
         THEN [conns |-> [cs EXCEPT ![sc[s]].wfail = TRUE], err |-> "transport"]
         ELSE [conns |-> Deliver(cs, sc[s], f), err |-> "none"]

\* the registry lookup and conn.WriteMessage: no connection, a transport error
\* (the connection is closed, its transport is gone, or this write fails), or
\* the frame is delivered
Send(sc, cs, s, f, werr) ==
    IF s \notin DOMAIN sc THEN [conns |-> cs, err |-> "notconnected"]
    ELSE IF cs[sc[s]].closed \/ ~cs[sc[s]].open \/ cs[sc[s]].wfail \/ werr
         THEN [conns |-> [cs EXCEPT ![sc[s]].wfail = TRUE], err |-> "transport"]
         ELSE [conns |-> Deliver(cs, sc[s], f), err |-> "none"]

\* PushConfig step 6 of one call; the handler of a connection goes on to its
\* read loop whatever the push returned
PushWrite ==
    /\ \E p \in pushes, werr \in BOOLEAN :
          /\ p.pc = "write"
          /\ LET f == [type |-> "update_config_full", cfg |-> p.cfg]
                 r == Send(slaveConns, wsConns, p.slave, f, werr)
             IN  /\ wsConns' = IF p.by = 0 THEN r.conns
                               ELSE [r.conns EXCEPT ![p.by].pc = "read"]
                 /\ last' = LastOp("PushConfig", p.slave, r.err = "none", r.err)
          /\ pushes' = pushes \ {p}
    /\ UNCHANGED <<store, nextAccountId, slaveConns, status, now, pass, ops, others>>

\* RestartSlaveXray(s)
RestartSlaveXray ==
    /\ Idle
    /\ \E s \in SlaveIds, werr \in BOOLEAN :
          LET f == [type |-> "restart_xray", cfg |-> <<>>]
              r == Send(slaveConns, wsConns, s, f, werr)
          IN  /\ wsConns' = r.conns
              /\ last' = LastOp("RestartSlaveXray", s, r.err = "none", r.err)
    /\ UNCHANGED <<store, nextAccountId, slaveConns, status, pushes, now, pass, ops, others>>

\* OutboundController.addOutbound -> OutboundService.AddOutbound, and the
\* pushConfigToSlave goroutine it starts
addOutbound ==
    /\ Idle
    /\ \E slaveId \in {0} \cup LinkSlaves :
          LET n == GetXrayConfigForSlave(slaveSettings, slaveId)
              ok == slaveId > 0
          IN  /\ ok => n < MaxOutbounds
              /\ slaveSettings' =
                    IF ok THEN Drop(slaveSettings, {slaveId}) @@ (slaveId :> n + 1)
                    ELSE slaveSettings
              /\ pushes' = pushes \cup (IF ok THEN {NewPush(slaveId, 0)} ELSE {})
              /\ last' = [op |-> "addOutbound", id |-> slaveId, ok |-> ok,
                          pushed |-> IF ok THEN {slaveId} ELSE {}, cfg |-> <<>>,
                          fail |-> "none"]
    /\ UNCHANGED <<slaves, slaveCerts, outboundTraffics, inbounds, clientTraffics,
                   accounts, accountClients, nextAccountId, slaveConns, wsConns,
                   status, now, pass, ops, others>>

\* OutboundController.addOutbound -> OutboundService.AddOutbound, first half:
\* a request without a slave id is refused; getTemplateOutbounds reads the
\* template of the slave, and the rule of the request is appended to the array
AddOutboundGet ==
    /\ \E k \in EditIds, slaveId \in {0} \cup LinkSlaves :
          /\ edits[k].pc = "idle"
          /\ IF slaveId > 0
             THEN LET n == GetXrayConfigForSlave(slaveSettings, slaveId)
                  IN  /\ n < MaxOutbounds
                      /\ edits' = [edits EXCEPT ![k] =
                            [pc |-> "save", slave |-> slaveId, outbounds |-> n + 1]]
                      /\ last' = NoLast
             ELSE /\ edits' = edits
                  /\ last' = [op |-> "addOutbound", id |-> slaveId, ok |-> FALSE,
                              pushed |-> {}, cfg |-> <<>>, fail |-> "none"]
    /\ UNCHANGED <<store, nextAccountId, slaveConns, link, now, pass, ops, ingests,
                   calls, secrets, agent, slaveOnlineClients, slaveStats>>

\* saveTemplateOutbounds(slaveId, outbounds): the template is read again, its
\* key outbounds is set to the array of the request, and the row is saved
saveTemplateOutbounds(ss, s, outbounds) == Drop(ss, {s}) @@ (s :> outbounds)

\* AddOutbound, second half: saveTemplateOutbounds, and the controller starts
\* the pushConfigToSlave goroutine and answers success
AddOutboundSave ==
    /\ \E k \in EditIds :
          /\ edits[k].pc = "save"
          /\ slaveSettings' =
                saveTemplateOutbounds(slaveSettings, edits[k].slave, edits[k].outbounds)
          /\ pushes' = pushes \cup {NewPush(edits[k].slave, 0)}
          /\ edits' = [edits EXCEPT ![k] = NoEdit]
          /\ last' = [op |-> "addOutbound", id |-> edits[k].slave, ok |-> TRUE,
                      pushed |-> {edits[k].slave}, cfg |-> <<>>, fail |-> "none"]
    /\ UNCHANGED <<slaves, slaveCerts, outboundTraffics, inbounds, clientTraffics,
                   accounts, accountClients, nextAccountId, slaveConns, wsConns,
                   status, now, pass, ops, ingests, calls, secrets, agent,
                   slaveOnlineClients, slaveStats>>

\* the read loop of connectSlave receives a message that is no traffic_stats
Heartbeat ==
    /\ \E c \in DOMAIN wsConns :
          /\ wsConns[c].pc = "read"
          /\ wsConns[c].open /\ ~wsConns[c].closed
          /\ status' = UpdateSlaveStatus(status, slaves, wsConns[c].slave, "online")
          /\ slaveStats' = UpdateSlaveStats(
                [slaveStats EXCEPT ![wsConns[c].slave].type = "", ![wsConns[c].slave].at = now],
                slaves, wsConns[c].slave, "system_stats", now)
          /\ wsConns' = [wsConns EXCEPT ![c].beat = TRUE, ![c].idle = 0]
    /\ last' = NoLast
    /\ UNCHANGED <<store, nextAccountId, slaveConns, pushes, now, pass, ops, handlers,
                   slaveOnlineClients>>

\* ReadMessage fails: the handler leaves its loop and calls RemoveSlaveConn
ReadFail ==
    /\ \E c \in DOMAIN wsConns :
          /\ wsConns[c].pc = "read"
          /\ ~wsConns[c].open \/ wsConns[c].closed
          /\ LET r == RemoveSlaveConn(slaveConns, wsConns, wsConns[c].slave)
             IN  /\ slaveConns' = r.slaveConns
                 /\ wsConns' = [r.conns EXCEPT ![c].pc = "offline"]
          /\ slaveOnlineClients' = Drop(slaveOnlineClients, {wsConns[c].slave})
    /\ last' = NoLast
    /\ UNCHANGED <<store, nextAccountId, status, pushes, now, pass, ops, handlers,
                   slaveStats>>

\* the last statement of connectSlave: UpdateSlaveStatus(id, "offline", "")
SetOffline ==
    /\ \E c \in DOMAIN wsConns :
          /\ wsConns[c].pc = "offline"
          /\ status' = UpdateSlaveStatus(status, slaves, wsConns[c].slave, "offline")
          /\ slaveStats' = UpdateSlaveStats(slaveStats, slaves, wsConns[c].slave, "", now)
          /\ wsConns' = [wsConns EXCEPT ![c] = Gone(0)]
    /\ last' = NoLast
    /\ UNCHANGED <<store, nextAccountId, slaveConns, pushes, now, pass, ops, handlers,
                   slaveOnlineClients>>

\* the transport of a connection breaks
LinkDrop ==
    /\ \E c \in DOMAIN wsConns :
          /\ wsConns[c].pc \in {"push", "read"}
          /\ wsConns[c].open /\ ~wsConns[c].closed
          /\ wsConns' = [wsConns EXCEPT ![c].open = FALSE]
    /\ last' = NoLast
    /\ UNCHANGED <<store, nextAccountId, slaveConns, status, pushes, now, pass, ops, others>>

\* a system-stats interval passes without a message on an open connection
Silence ==
    /\ \E c \in DOMAIN wsConns :
          /\ wsConns[c].pc = "read"
          /\ wsConns[c].open /\ ~wsConns[c].closed
          /\ wsConns[c].idle < MaxIdle
          /\ wsConns' = [wsConns EXCEPT ![c].idle = @ + 1]
    /\ last' = NoLast
    /\ UNCHANGED <<store, nextAccountId, slaveConns, status, pushes, now, pass, ops, others>>

(* -------------------------- inbound controller ------------------------- *)
\* the PushConfig calls a handler makes after its commit
Spawn(targets) == {NewPush(t, 0) : t \in targets}

DoneInbound(op, id, ok, targets) ==
    last' = [op |-> op, id |-> id, ok |-> ok, pushed |-> targets, cfg |-> <<>>,
             fail |-> "none"]

\* rows of client_traffics with the rows of the emails es of inbound i removed
DelClientStat(ct, i, es) ==
    Drop(ct, {e \in DOMAIN ct \cap es : ct[e].inboundId = i})

\* the emails that are a client of some inbound
AllClients(inb) == UNION {GetClients(inb, i) : i \in DOMAIN inb}

\* InboundController.addInbound; i stands for the port the tag is made from
addInbound ==
    /\ AdminSeq
    /\ \E i \in InboundIds, sid \in {0} \cup SlaveIds, en \in BOOLEAN :
          LET ok == sid > 0 /\ ~HasInbound(inbounds, i)
              row == [slaveId |-> sid, enable |-> en, clients |-> {}, up |-> 0, down |-> 0]
          IN  /\ inbounds' = IF ok THEN inbounds @@ (i :> row) ELSE inbounds
              /\ pushes' = pushes \cup Spawn(IF ok THEN {sid} ELSE {})
              /\ DoneInbound("addInbound", i, ok, IF ok THEN {sid} ELSE {})
    /\ UNCHANGED <<slaves, slaveSettings, slaveCerts, outboundTraffics, clientTraffics,
                   accounts, accountClients, nextAccountId, slaveConns, wsConns,
                   status, now, pass, others>>

\* InboundController.importInbound
importInbound ==
    /\ AdminSeq
    /\ \E i \in InboundIds, sid \in {0} \cup SlaveIds, en \in BOOLEAN :
          LET ok == ~HasInbound(inbounds, i)
              row == [slaveId |-> sid, enable |-> en, clients |-> {}, up |-> 0, down |-> 0]
          IN  /\ inbounds' = IF ok THEN inbounds @@ (i :> row) ELSE inbounds
              /\ DoneInbound("importInbound", i, ok, {})
    /\ UNCHANGED <<slaves, slaveSettings, slaveCerts, outboundTraffics, clientTraffics,
                   accounts, accountClients, nextAccountId, slaveConns, link, now, pass,
                   others>>

\* updateInbound that pushes to the new slave only
updateInboundNewOnly ==
    /\ AdminSeq
    /\ \E i \in InboundIds, sid \in {0} \cup SlaveIds, en \in BOOLEAN :
          LET ok == HasInbound(inbounds, i) /\ sid > 0
              targets == IF ~ok THEN {} ELSE {sid}
          IN  /\ inbounds' = IF ok
                             THEN [inbounds EXCEPT ![i].slaveId = sid, ![i].enable = en]
                             ELSE inbounds
              /\ pushes' = pushes \cup Spawn(targets)
              /\ DoneInbound("updateInbound", i, ok, targets)
    /\ UNCHANGED <<slaves, slaveSettings, slaveCerts, outboundTraffics, clientTraffics,
                   accounts, accountClients, nextAccountId, slaveConns, wsConns,
                   status, now, pass, others>>

\* InboundController.updateInbound: sid and en are the row after the bind
updateInbound ==
    /\ AdminSeq
    /\ \E i \in InboundIds, sid \in {0} \cup SlaveIds, en \in BOOLEAN :
          LET ok == HasInbound(inbounds, i) /\ sid > 0
              originalSlaveId == inbounds[i].slaveId
              targets == IF ~ok THEN {}
                         ELSE {sid} \cup (IF originalSlaveId > 0 /\ originalSlaveId # sid
                                          THEN {originalSlaveId} ELSE {})
          IN  /\ inbounds' = IF ok
                             THEN [inbounds EXCEPT ![i].slaveId = sid, ![i].enable = en]
                             ELSE inbounds
              /\ pushes' = pushes \cup Spawn(targets)
              /\ DoneInbound("updateInbound", i, ok, targets)
    /\ UNCHANGED <<slaves, slaveSettings, slaveCerts, outboundTraffics, clientTraffics,
                   accounts, accountClients, nextAccountId, slaveConns, wsConns,
                   status, now, pass, others>>

\* InboundController.delInbound of an inbound there is
delInbound ==
    /\ AdminSeq
    /\ \E i \in DOMAIN inbounds :
          LET targets == IF inbounds[i].slaveId > 0 THEN {inbounds[i].slaveId} ELSE {}
          IN  /\ inbounds' = Drop(inbounds, {i})
              /\ clientTraffics' = DelClientStat(clientTraffics, i, Emails)
              /\ pushes' = pushes \cup Spawn(targets)
              /\ DoneInbound("delInbound", i, TRUE, targets)
    /\ UNCHANGED <<slaves, slaveSettings, slaveCerts, outboundTraffics, accounts,
                   accountClients, nextAccountId, slaveConns, wsConns, status, now,
                   pass, others>>

\* InboundController.addInboundClient
addInboundClient ==
    /\ AdminSeq
    /\ \E i \in InboundIds, e \in Emails :
          LET ok == HasInbound(inbounds, i) /\ e \notin AllClients(inbounds)
              targets == IF ok /\ inbounds[i].slaveId > 0
                         THEN {inbounds[i].slaveId} ELSE {}
          IN  /\ IF ok
                 THEN /\ inbounds' = [inbounds EXCEPT ![i].clients = @ \cup {e}]
                      /\ clientTraffics' =
                            IF e \in DOMAIN clientTraffics THEN clientTraffics
                            ELSE clientTraffics @@
                                 (e :> [NewTraffic(e, 0, 0) EXCEPT !.inboundId = i])
                 ELSE UNCHANGED <<inbounds, clientTraffics>>
              /\ pushes' = pushes \cup Spawn(targets)
              /\ DoneInbound("addInboundClient", i, ok, targets)
    /\ UNCHANGED <<slaves, slaveSettings, slaveCerts, outboundTraffics, accounts,
                   accountClients, nextAccountId, slaveConns, wsConns, status, now,
                   pass, others>>

\* InboundController.updateInboundClient: bodySlave is the slaveId of the bound
\* request, en the client's new enable
updateInboundClient ==
    /\ AdminSeq
    /\ \E i \in InboundIds, e \in Emails, bodySlave \in {0} \cup SlaveIds,
          en \in BOOLEAN :
          LET ok == HasInbound(inbounds, i) /\ e \in GetClients(inbounds, i)
              targets == IF ok /\ bodySlave > 0 THEN {bodySlave} ELSE {}
          IN  /\ clientTraffics' =
                    IF ok /\ e \in DOMAIN clientTraffics
                    THEN [clientTraffics EXCEPT ![e].enable = en]
                    ELSE clientTraffics
              /\ pushes' = pushes \cup Spawn(targets)
              /\ DoneInbound("updateInboundClient", i, ok, targets)
    /\ UNCHANGED <<slaves, slaveSettings, slaveCerts, outboundTraffics, inbounds,
                   accounts, accountClients, nextAccountId, slaveConns, wsConns,
                   status, now, pass, others>>

\* InboundService.DelInboundClient / DelInboundClientByEmail
DelClient(i, e) ==
    /\ inbounds' = [inbounds EXCEPT ![i].clients = @ \ {e}]
    /\ clientTraffics' = DelClientStat(clientTraffics, i, {e})

\* InboundController.delInboundClient
delInboundClient ==
    /\ AdminSeq
    /\ \E i \in InboundIds, e \in Emails :
          LET ok == HasInbound(inbounds, i) /\ e \in GetClients(inbounds, i)
              targets == IF ok /\ inbounds[i].slaveId > 0
                         THEN {inbounds[i].slaveId} ELSE {}
          IN  /\ IF ok THEN DelClient(i, e) ELSE UNCHANGED <<inbounds, clientTraffics>>
              /\ pushes' = pushes \cup Spawn(targets)
              /\ DoneInbound("delInboundClient", i, ok, targets)
    /\ UNCHANGED <<slaves, slaveSettings, slaveCerts, outboundTraffics, accounts,
                   accountClients, nextAccountId, slaveConns, wsConns, status, now,
                   pass, others>>

\* InboundController.delInboundClientByEmail
delInboundClientByEmail ==
    /\ AdminSeq
    /\ \E i \in InboundIds, e \in Emails :
          LET ok == HasInbound(inbounds, i) /\ e \in GetClients(inbounds, i)
          IN  /\ IF ok THEN DelClient(i, e) ELSE UNCHANGED <<inbounds, clientTraffics>>
              /\ DoneInbound("delInboundClientByEmail", i, ok, {})
    /\ UNCHANGED <<slaves, slaveSettings, slaveCerts, outboundTraffics, accounts,
                   accountClients, nextAccountId, slaveConns, link, now, pass, others>>

(* ------------------- ingest, statement by statement -------------------- *)
\* the inbound tags a report names: those of the rows, and one of no row
ReportTags == InboundIds \cup {0}

\* the outbound tags a report names
OutboundTags == {"direct"}

\* where a pass goes on once the inbound tags ib and the outbound tags ob of
\* its report are left
NextPc(ib, ob) ==
    IF ib # {} THEN "inbounds" ELSE IF ob # {} THEN "outbounds" ELSE "policy"

\* the inbound UPDATE without the condition on slave_id
AddInboundTrafficAnySlave(inb, s, t) ==
    [i \in DOMAIN inb |->
        IF i = t
        THEN [inb[i] EXCEPT !.up = @ + Delta, !.down = @ + Delta]
        ELSE inb[i]]

\* UPDATE inbounds SET up = up + ?, down = down + ? WHERE tag = t AND slave_id = s
AddInboundTraffic(inb, s, t) ==
    [i \in DOMAIN inb |->
        IF i = t /\ inb[i].slaveId = s
        THEN [inb[i] EXCEPT !.up = @ + Delta, !.down = @ + Delta]
        ELSE inb[i]]

\* FirstOrCreate on (tag, slave_id): the table with the row of <<s, t>> in it
FirstOrCreate(ob, s, t) ==
    IF <<s, t>> \in DOMAIN ob THEN ob ELSE ob @@ (<<s, t>> :> [up |-> 0, down |-> 0])

\* the counters a row of slave s may still grow by a report
Room(s) ==
    /\ \A i \in GetInboundsForSlave(inbounds, s) : inbounds[i].up < MaxReports * Delta
    /\ \A k \in DOMAIN outboundTraffics :
          k[1] = s => outboundTraffics[k].up < MaxReports * Delta

\* the read loop of slave s takes a traffic_stats message off its connection
StatsRead ==
    /\ \E s \in DOMAIN slaveConns, ib \in SUBSET ReportTags, ob \in SUBSET OutboundTags :
          /\ ingests[s].pc = "idle"
          /\ wsConns[slaveConns[s]].pc = "read"
          /\ ib # {} \/ ob # {}
          /\ Room(s)
          /\ ingests' = [ingests EXCEPT ![s] =
                [NoIngest EXCEPT !.pc = NextPc(ib, ob), !.named = ib,
                                 !.inbounds = ib, !.outbounds = ob]]
    /\ last' = NoLast
    /\ UNCHANGED <<store, nextAccountId, slaveConns, link, now, pass, ops>>
    /\ UNCHANGED <<calls, edits, secrets, agent, slaveOnlineClients, slaveStats>>

\* ProcessTrafficStats, inbound counters: the UPDATE of one reported tag
StatsInbound ==
    /\ \E s \in SlaveIds :
          /\ ingests[s].pc = "inbounds"
          /\ \E t \in ingests[s].inbounds :
                LET rest == ingests[s].inbounds \ {t}
                IN  /\ inbounds' = AddInboundTraffic(inbounds, s, t)
                    /\ ingests' = [ingests EXCEPT
                          ![s].inbounds = rest,
                          ![s].pc = NextPc(rest, ingests[s].outbounds)]
    /\ last' = NoLast
    /\ UNCHANGED <<slaves, slaveSettings, slaveCerts, outboundTraffics, clientTraffics,
                   accounts, accountClients, nextAccountId, slaveConns, link, now,
                   pass, ops>>
    /\ UNCHANGED <<calls, edits, secrets, agent, slaveOnlineClients, slaveStats>>

\* ProcessTrafficStats, outbound counters: FirstOrCreate loads the row of one
\* reported tag
StatsOutboundFirst ==
    /\ \E s \in SlaveIds :
          /\ ingests[s].pc = "outbounds"
          /\ \E t \in ingests[s].outbounds :
                /\ outboundTraffics' = FirstOrCreate(outboundTraffics, s, t)
                /\ ingests' = [ingests EXCEPT
                      ![s].pc = "save",
                      ![s].row = [tag |-> t, up |-> outboundTraffics'[<<s, t>>].up,
                                  down |-> outboundTraffics'[<<s, t>>].down]]
    /\ last' = NoLast
    /\ UNCHANGED <<slaves, slaveSettings, slaveCerts, inbounds, clientTraffics,
                   accounts, accountClients, nextAccountId, slaveConns, link, now,
                   pass, ops>>
    /\ UNCHANGED <<calls, edits, secrets, agent, slaveOnlineClients, slaveStats>>

\* ProcessTrafficStats, outbound counters: db.Save of the loaded row with the
\* deltas added
StatsOutboundSave ==
    /\ \E s \in SlaveIds :
          /\ ingests[s].pc = "save"
          /\ LET r == ingests[s].row
                 rest == ingests[s].outbounds \ {r.tag}
                 row == [up |-> r.up + Delta, down |-> r.down + Delta]
             IN  /\ outboundTraffics' =
                       Drop(outboundTraffics, {<<s, r.tag>>}) @@ (<<s, r.tag>> :> row)
                 /\ ingests' = [ingests EXCEPT
                       ![s].outbounds = rest, ![s].row = <<>>,
                       ![s].pc = NextPc({}, rest)]
    /\ last' = NoLast
    /\ UNCHANGED <<slaves, slaveSettings, slaveCerts, inbounds, clientTraffics,
                   accounts, accountClients, nextAccountId, slaveConns, link, now,
                   pass, ops>>
    /\ UNCHANGED <<calls, edits, secrets, agent, slaveOnlineClients, slaveStats>>

\* the values of data["online_clients"]: absent (or no list), or a list of
\* strings, "" among them
OnlineMessages ==
    {[given |-> FALSE, list |-> <<>>]} \cup
    {[given |-> TRUE, list |-> l] :
        l \in UNION {[1 .. n -> Emails \cup {""}] : n \in 0 .. MaxOnline}}

\* the elements of a list
Range(l) == {l[k] : k \in DOMAIN l}

RECURSIVE NonEmpty(_)
\* ProcessTrafficStats, online clients: the strings of the list that are not ""
NonEmpty(l) ==
    IF l = <<>> THEN <<>>
    ELSE IF Head(l) = "" THEN NonEmpty(Tail(l))
         ELSE <<Head(l)>> \o NonEmpty(Tail(l))

\* ProcessTrafficStats, online clients: the map after a report of slave s
SetOnline(oc, s, m) ==
    IF m.given
    THEN [k \in DOMAIN oc \cup {s} |-> IF k = s THEN NonEmpty(m.list) ELSE oc[k]]
    ELSE oc

\* GetAllOnlineClients: the slices it may return, the keys of clientMap in
\* the order the map iteration yields them
GetAllOnlineClients(oc) ==
    LET clientMap == UNION {Range(oc[k]) : k \in DOMAIN oc}
    IN  {q \in [1 .. Cardinality(clientMap) -> clientMap] :
            \A i, j \in DOMAIN q : q[i] = q[j] => i = j}

\* the read loop of slave s takes a traffic_stats message with no counters
\* off its connection; ProcessTrafficStats up to the counters
StatsOnline ==
    /\ \E s \in DOMAIN slaveConns, m \in OnlineMessages :
          /\ ingests[s].pc = "idle"
          /\ wsConns[slaveConns[s]].pc = "read"
          /\ ingests' = [ingests EXCEPT ![s] =
                [NoIngest EXCEPT !.pc = "policy", !.online = m]]
          /\ slaveOnlineClients' = SetOnline(slaveOnlineClients, s, m)
    /\ last' = NoLast
    /\ UNCHANGED <<store, nextAccountId, slaveConns, link, now, pass, ops>>
    /\ UNCHANGED <<calls, edits, secrets, agent, slaveStats>>

\* ProcessTrafficStats, from the policy checks on (the report has no users)
StatsPolicy ==
    /\ Idle
    /\ \E s \in SlaveIds :
          /\ ingests[s].pc = "policy"
          /\ ProcessTrafficStats(s, <<>>, {})
          /\ ingests' = [ingests EXCEPT ![s] = NoIngest]
    /\ UNCHANGED <<calls, edits, secrets, agent, slaveOnlineClients, slaveStats>>

\* the read loop of slave s takes a traffic_stats message with the counters
\* of one client off its connection; ProcessTrafficStats up to the First of
\* the users loop, which loads the row of the email (none: nothing to save)
StatsUserFirst ==
    /\ \E s \in DOMAIN slaveConns, e \in Emails :
          /\ ingests[s].pc = "idle"
          /\ wsConns[slaveConns[s]].pc = "read"
          /\ e \in DOMAIN clientTraffics =>
                StoredBytes(clientTraffics) <= MaxBytes - 2 * Delta
          /\ ingests' = [ingests EXCEPT ![s] =
                IF e \in DOMAIN clientTraffics
                THEN [NoIngest EXCEPT !.pc = "user",
                                      !.user = [email |-> e, row |-> clientTraffics[e]]]
                ELSE [NoIngest EXCEPT !.pc = "sync",
                                      !.user = [email |-> e, row |-> <<>>]]]
    /\ last' = NoLast
    /\ UNCHANGED <<store, nextAccountId, slaveConns, link, now, pass, ops>>
    /\ UNCHANGED <<calls, edits, secrets, agent, slaveOnlineClients, slaveStats>>

\* db.Save(&clientTraffic): every column of the row loaded by First is
\* written, the counters with the deltas of the report added
SaveClientTraffic(ct, e, row) ==
    Drop(ct, {e}) @@
        (e :> [row EXCEPT !.up = row.up + Delta, !.down = row.down + Delta])

\* ProcessTrafficStats, users loop: the Save of the row First has loaded
StatsUserSave ==
    /\ \E s \in SlaveIds :
          /\ ingests[s].pc = "user"
          /\ clientTraffics' =
                SaveClientTraffic(clientTraffics, ingests[s].user.email,
                                  ingests[s].user.row)
          /\ ingests' = [ingests EXCEPT ![s].pc = "sync"]
    /\ last' = NoLast
    /\ UNCHANGED <<slaves, slaveSettings, slaveCerts, outboundTraffics, inbounds,
                   accounts, accountClients, nextAccountId, slaveConns, link, now,
                   pass, ops>>
    /\ UNCHANGED <<calls, edits, secrets, agent, slaveOnlineClients, slaveStats>>

\* ProcessTrafficStats after the users loop: the account sync of the reported
\* email and policy check 1, then checks 2 and 3 up to the first account they
\* disable
StatsUserSync ==
    /\ Idle
    /\ \E s \in SlaveIds :
          /\ ingests[s].pc = "sync"
          /\ LET users == <<UserEntry(ingests[s].user.email)>>
                 acc1 == SyncAccounts(accounts, clientTraffics, users)
                 ct2 == checkAndDisableInvalidClients(inbounds, clientTraffics, s, now)
                 p == [pc |-> "limit", slave |-> s,
                       users |-> {ingests[s].user.email},
                       hit |-> InvalidClients(inbounds, clientTraffics, s, now) # {},
                       todo |-> LimitList(acc1), cur |-> 0, flagged |-> {},
                       pre |-> [accounts |-> acc1, clientTraffics |-> clientTraffics]]
                 adv == Advance(p, acc1, accountClients, ct2, inbounds,
                                DOMAIN slaveConns, now)
             IN  /\ clientTraffics' = ct2
                 /\ accounts' = adv.accounts
                 /\ pass' = adv.pass
                 /\ last' = adv.last
          /\ ingests' = [ingests EXCEPT ![s] = NoIngest]
    /\ UNCHANGED <<slaves, slaveSettings, slaveCerts, outboundTraffics, inbounds,
                   accountClients, nextAccountId, slaveConns, link, now, ops>>
    /\ UNCHANGED <<calls, edits, secrets, agent, slaveOnlineClients, slaveStats>>

(* -------------------------- the pushed config -------------------------- *)
\* an inbound block of a config: one of the template (id 0), or the one
\* rendered from row id of table inbounds
Block(tag, id) == [tag |-> tag, id |-> id]

\* what GetXrayConfigForSlave returns: no template (neither a row of the slave
\* nor a global one), or a template with the inbounds it already has
Templates ==
    {[found |-> FALSE, inbounds |-> <<>>]} \cup
    {[found |-> TRUE, inbounds |-> l] : l \in {<<>>, <<Block("api", 0)>>}}

RECURSIVE Rendered(_, _)
\* PushConfig step 4: GenXrayInboundConfig of the enabled rows among ids, in
\* the order of their ids
Rendered(inb, ids) ==
    IF ids = {} THEN <<>>
    ELSE LET i == Min(ids)
         IN  (IF inb[i].enable THEN <<Block("inbound", i)>> ELSE <<>>)
                \o Rendered(inb, ids \ {i})

\* an assembly that starts from an empty inbound list
PushInboundsNoTemplate(tpl, inb, s) == Rendered(inb, GetInboundsForSlave(inb, s))

\* PushConfig steps 2-4: xrayConfig.InboundConfigs, the template's inbounds
\* with the rendered blocks appended
PushInbounds(tpl, inb, s) == tpl.inbounds \o Rendered(inb, GetInboundsForSlave(inb, s))

\* PushConfig(slaveId), the whole call, with the template the settings give
PushConfig ==
    /\ \E s \in SlaveIds, tpl \in Templates, werr \in BOOLEAN :
          IF ~tpl.found
          THEN /\ last' = [op |-> "PushConfig", id |-> s, ok |-> FALSE, pushed |-> {},
                           cfg |-> <<>>, fail |-> "template", template |-> tpl]
               /\ UNCHANGED wsConns
          ELSE LET cfg == [outbounds |-> 0,
                           inbounds |-> {i \in GetInboundsForSlave(inbounds, s) :
                                            inbounds[i].enable},
                           clients |-> Assemble(inbounds, clientTraffics, accounts, s),
                           list |-> PushInbounds(tpl, inbounds, s)]
                   r == Send(slaveConns, wsConns, s,
                             [type |-> "update_config_full", cfg |-> cfg], werr)
               IN  /\ wsConns' = r.conns
                   /\ last' = [op |-> "PushConfig", id |-> s, ok |-> r.err = "none",
                               pushed |-> {s}, cfg |-> cfg, fail |-> r.err,
                               template |-> tpl]
    /\ UNCHANGED <<store, nextAccountId, slaveConns, status, pushes, now, pass, ops,
                   others>>

(* --------------------------- message dispatch -------------------------- *)
\* the type field of the messages an agent sends: none (system stats),
\* traffic_stats, cert_report
LinkTypes == {"", "traffic_stats", "cert_report"}

\* one turn of the read loop of connectSlave: a message is read and
\* dispatched; traffic_stats (here with no counters) goes to
\* ProcessTrafficStats, everything else to UpdateSlaveStatus with the text of
\* the message
ReadMessage ==
    /\ Idle
    /\ \E c \in ConnIds, type \in LinkTypes :
          LET s == wsConns[c].slave
              got == [slaveStats EXCEPT ![s].type = type, ![s].at = now]
          IN  /\ wsConns[c].pc = "read"
              /\ wsConns[c].open /\ ~wsConns[c].closed
              /\ IF type = "traffic_stats"
                 THEN /\ ProcessTrafficStats(s, <<>>, {})
                      /\ slaveStats' = got
                 ELSE /\ status' = UpdateSlaveStatus(status, slaves, s, "online")
                      /\ slaveStats' = UpdateSlaveStats(got, slaves, s,
                            IF type = "" THEN "system_stats" ELSE type, now)
                      /\ wsConns' = [wsConns EXCEPT ![c].beat = TRUE, ![c].idle = 0]
                      /\ last' = LastOp("UpdateSlaveStatus", s, TRUE, "none")
                      /\ UNCHANGED <<store, nextAccountId, slaveConns, pushes, now,
                                     pass, ops>>
    /\ UNCHANGED <<handlers, slaveOnlineClients>>

(* ------------------------------ the agent ------------------------------ *)

\* the Xray configurations the master sends; 0 is a config string that does
\* not unmarshal (and s.process = nil)
Configs == {1, 2}

\* the frames the agent reads: type and, for update_config_full, the config
AgentMessages ==
    {[type |-> "update_config_full", config |-> c] : c \in Configs \cup {0}}
        \cup {[type |-> "restart_xray", config |-> 0], [type |-> "", config |-> 0]}

\* what an agent step leaves alone
master == <<store, nextAccountId, slaveConns, link, now, pass, ops, ingests,
            calls, edits, secrets, slaveOnlineClients, slaveStats, last>>

\* the agent process exists: it has not panicked and Run has not returned
AgentAlive == agent.pc \notin {"panic", "stopped"}

\* close(done): closing a closed channel panics, which ends the process
CloseDone(a) ==
    IF a.done = "closed"
    THEN [a EXCEPT !.pc = "panic"]
    ELSE [a EXCEPT !.done = "closed"]

\* applyFullConfig: stop the running process, start one with the new config
applyFullConfig(a, c, startOk) ==
    IF startOk
    THEN [a EXCEPT !.process = c, !.running = TRUE]
    ELSE [a EXCEPT !.running = FALSE]

\* restartXray
restartXray(a, stopOk, startOk) ==
    IF a.process # 0 /\ a.running /\ ~stopOk
    THEN a
    ELSE IF a.process # 0
         THEN [a EXCEPT !.running = startOk]
         ELSE a

\* connectAndLoop up to the read loop: websocket.DefaultDialer.Dial; on
\* success the heartbeat goroutine is started with a new channel done.
\* The goroutine of the previous connection has ended by then: it is woken
\* by its closed channel or its failed write as soon as connectAndLoop
\* returns, and the next Dial comes after time.Sleep(5 * time.Second).
Dial(ok) ==
    /\ agent.pc = "dial"
    /\ agent.hb \in {"off", "returned"}
    /\ agent' = IF ok
                THEN [agent EXCEPT !.pc = "read", !.conn = "open", !.done = "open",
                                   !.hb = "certs", !.readErr = FALSE,
                                   !.writeErr = FALSE]
                ELSE [agent EXCEPT !.pc = "sleep"]
    /\ UNCHANGED master

\* Run's goroutine: time.Sleep(5 * time.Second) ends, the loop calls
\* connectAndLoop again
Sleep ==
    /\ agent.pc = "sleep"
    /\ agent' = [agent EXCEPT !.pc = "dial"]
    /\ UNCHANGED master

\* the transport starts to fail reads, writes or both
LinkFault(kind) ==
    /\ agent.pc = "read"
    /\ agent.conn = "open"
    /\ agent' = [agent EXCEPT !.readErr = @ \/ kind \in {"read", "both"},
                              !.writeErr = @ \/ kind \in {"write", "both"}]
    /\ agent' # agent
    /\ UNCHANGED master

\* the read loop: c.ReadMessage() returns a frame, which is dispatched
Read(m, stopOk, startOk) ==
    /\ agent.pc = "read"
    /\ ~agent.readErr
    /\ agent' = IF m.type = "update_config_full"
                THEN IF m.config = 0
                     THEN agent
                     ELSE applyFullConfig(agent, m.config, startOk)
                ELSE IF m.type = "restart_xray"
                     THEN restartXray(agent, stopOk, startOk)
                     ELSE agent
    /\ UNCHANGED master

\* the read loop: c.ReadMessage() fails; close(done), break, the deferred
\* c.Close(), and connectAndLoop returns to Run's loop
ReadError ==
    /\ agent.pc = "read"
    /\ agent.readErr
    /\ LET a == CloseDone(agent) IN
          agent' = [a EXCEPT !.conn = "closed",
                             !.pc = IF a.pc = "panic" THEN "panic" ELSE "sleep"]
    /\ UNCHANGED master

\* heartbeat goroutine: the certificates sent on connect; a failed write is
\* logged
HbCerts ==
    /\ AgentAlive
    /\ agent.hb = "certs"
    /\ agent' = [agent EXCEPT !.hb = "select"]
    /\ UNCHANGED master

\* heartbeat goroutine: a ticker fires while it waits in select
HbTick(which) ==
    /\ AgentAlive
    /\ agent.hb = "select"
    /\ agent.done = "open"
    /\ agent' = [agent EXCEPT !.hb = which]
    /\ UNCHANGED master

\* heartbeat goroutine, case <-ticker.C: c.WriteMessage(stats); on an error
\* close(done) and return
HbStats ==
    /\ AgentAlive
    /\ agent.hb = "stats"
    /\ agent' = IF agent.conn = "open" /\ ~agent.writeErr
                THEN [agent EXCEPT !.hb = "select"]
                ELSE [CloseDone(agent) EXCEPT !.hb = "returned"]
    /\ UNCHANGED master

\* heartbeat goroutine, cases <-trafficTicker.C and <-certTicker.C: a failed
\* write is logged
HbSend ==
    /\ AgentAlive
    /\ agent.hb = "traffic"
    /\ agent' = [agent EXCEPT !.hb = "select"]
    /\ UNCHANGED master

\* heartbeat goroutine, case <-done: return
HbDone ==
    /\ AgentAlive
    /\ agent.hb = "select"
    /\ agent.done = "closed"
    /\ agent' = [agent EXCEPT !.hb = "returned"]
    /\ UNCHANGED master

\* Run: <-interrupt, the Xray process is stopped and Run returns
Interrupt ==
    /\ AgentAlive
    /\ agent' = [agent EXCEPT !.pc = "stopped", !.running = FALSE]
    /\ UNCHANGED master

(* ---------------------------- specification ---------------------------- *)
Next ==
    \/ AddAccount
    \/ UpdateAccount
    \/ DelAccount
    \/ AddClientToAccount
    \/ RemoveClientFromAccount
    \/ ResetAccountTraffic
    \/ Tick
    \/ TrafficStats
    \/ LimitCascade
    \/ ExpiryCascade
    \/ Return

Spec == Init /\ [][Next]_vars

\* the slave lifecycle: registry, reports of the slaves' own rows, the
\* account associations a delete has to cascade to, and the delete
NextDel ==
    \/ AddAccount
    \/ AddClientToAccount
    \/ CertReport
    \/ OutboundStats
    \/ Return
    \/ delSlave

SpecDel == Init /\ [][NextDel]_vars

\* a store with one inbound and its client, and no request served
InitStore ==
    /\ slaves = SlaveIds
    /\ slaveSettings = [s \in SlaveIds |-> 0]
    /\ slaveCerts = {}
    /\ outboundTraffics = <<>>
    /\ inbounds = (1 :> InitInbounds[1])
    /\ clientTraffics = ("u1" :> NewTraffic("u1", 0, 0))
    /\ accounts = <<>>
    /\ accountClients = {}
    /\ nextAccountId = 1
    /\ pushes = {}
    /\ now = 1500
    /\ pass = NoPass
    /\ ops = 0
    /\ ingests = [s \in SlaveIds |-> NoIngest]
    /\ calls = [k \in CallIds |-> NoCall]
    /\ edits = [k \in EditIds |-> NoEdit]
    /\ secrets = [s \in SlaveIds |-> s]
    /\ agent = NoAgent
    /\ slaveOnlineClients = <<>>
    /\ slaveStats = [s \in SlaveIds |-> NoStats]
    /\ last = NoLast

\* the master has started: no slave is connected yet
InitLink ==
    /\ InitStore
    /\ slaveConns = <<>>
    /\ wsConns = [c \in ConnIds |-> Gone(0)]
    /\ status = [s \in SlaveIds |-> "offline"]

\* the connections of a slave, the pushes sent over them, and the admin
\* requests that add an outbound rule meanwhile
NextLink ==
    \/ connectSlave
    \/ PushAssemble
    \/ PushWrite
    \/ ReadFail
    \/ SetOffline
    \/ LinkDrop
    \/ addOutbound

SpecLink == InitLink /\ [][NextLink]_vars

\* the connections alone, with the steps of the master's goroutines scheduled
\* fairly; what the slaves and the network do is under no fairness
NextLive ==
    \/ connectSlave
    \/ PushAssemble
    \/ PushWrite
    \/ Heartbeat
    \/ ReadFail
    \/ SetOffline
    \/ LinkDrop
    \/ Silence

SpecLive ==
    /\ InitLink
    /\ [][NextLive]_vars
    /\ WF_vars(PushAssemble)
    /\ WF_vars(PushWrite)
    /\ WF_vars(ReadFail)
    /\ WF_vars(SetOffline)

\* slave 1 is connected and its handler sits in the read loop; slave 2 is not
InitInbound ==
    /\ InitStore
    /\ slaveConns = (1 :> 1)
    /\ wsConns = [c \in ConnIds |-> IF c = 1 THEN Attached(1) ELSE Gone(0)]
    /\ status = [s \in SlaveIds |-> IF s = 1 THEN "online" ELSE "offline"]

\* the admin requests of the inbound controller, the pushes they make, and
\* the restarts
NextInbound ==
    \/ RestartSlaveXray
    \/ addInbound
    \/ importInbound
    \/ updateInbound
    \/ delInbound
    \/ addInboundClient
    \/ updateInboundClient
    \/ delInboundClient
    \/ delInboundClientByEmail
    \/ PushAssemble
    \/ PushWrite

SpecInbound == InitInbound /\ [][NextInbound]_vars

\* the connections of a slave while the admin deletes slaves
NextAuth ==
    \/ connectSlave
    \/ PushAssemble
    \/ PushWrite
    \/ ReadFail
    \/ SetOffline
    \/ delSlave

SpecAuth == InitLink /\ [][NextAuth]_vars

\* the master has started on an empty store
InitSecret ==
    /\ slaves = {}
    /\ slaveSettings = <<>>
    /\ slaveCerts = {}
    /\ outboundTraffics = <<>>
    /\ inbounds = <<>>
    /\ clientTraffics = <<>>
    /\ accounts = <<>>
    /\ accountClients = {}
    /\ nextAccountId = 1
    /\ slaveConns = <<>>
    /\ wsConns = [c \in ConnIds |-> Gone(0)]
    /\ status = [s \in SlaveIds |-> "offline"]
    /\ pushes = {}
    /\ now = 1500
    /\ pass = NoPass
    /\ ops = 0
    /\ ingests = [s \in SlaveIds |-> NoIngest]
    /\ calls = [k \in CallIds |-> NoCall]
    /\ edits = [k \in EditIds |-> NoEdit]
    /\ secrets = <<>>
    /\ agent = NoAgent
    /\ slaveOnlineClients = <<>>
    /\ slaveStats = [s \in SlaveIds |-> NoStats]
    /\ last = NoLast

\* the admin adds slaves, and agents present their secret
NextSecret ==
    \/ addSlave
    \/ connectSlave
    \/ PushAssemble
    \/ PushWrite
    \/ ReadFail
    \/ SetOffline

SpecSecret == InitSecret /\ [][NextSecret]_vars

\* the admin requests and the reports, and passes that follow a pass at once
NextPolicy ==
    \/ Next
    \/ PolicyAgain

SpecPolicy == Init /\ [][NextPolicy]_vars

\* the agent process of one slave
NextAgent ==
    \/ \E ok \in BOOLEAN : Dial(ok)
    \/ Sleep
    \/ \E kind \in {"read", "write", "both"} : LinkFault(kind)
    \/ \E m \in AgentMessages, stopOk \in BOOLEAN, startOk \in BOOLEAN :
          Read(m, stopOk, startOk)
    \/ ReadError
    \/ HbCerts
    \/ \E which \in {"stats", "traffic"} : HbTick(which)
    \/ HbStats
    \/ HbSend
    \/ HbDone
    \/ Interrupt

SpecAgent == InitLink /\ [][NextAgent]_vars

\* every step of the agent's two goroutines is taken once it stays possible,
\* and the 5 s ticker fires; faults, frames of the master and the interrupt
\* signal are the environment's
SpecAgentLive ==
    /\ SpecAgent
    /\ WF_vars(\E ok \in BOOLEAN : Dial(ok))
    /\ WF_vars(Sleep)
    /\ WF_vars(ReadError)
    /\ WF_vars(HbCerts)
    /\ WF_vars(HbTick("stats"))
    /\ WF_vars(HbStats)
    /\ WF_vars(HbSend)
    /\ WF_vars(HbDone)

\* concurrent requests that associate clients with accounts
NextAssoc ==
    \/ AddClientCheck
    \/ AddClientCreate
    \/ AddClientCommit

SpecAssoc == Init /\ [][NextAssoc]_vars

\* the certificate reports of the slaves
NextCert == ProcessCertReport

SpecCert == Init /\ [][NextCert]_vars

\* one account with no limits, and client u1 associated with it
InitUsers ==
    /\ slaves = SlaveIds
    /\ slaveSettings = [s \in SlaveIds |-> 0]
    /\ slaveCerts = {}
    /\ outboundTraffics = <<>>
    /\ inbounds = InitInbounds
    /\ clientTraffics = ("u1" :> [NewTraffic("u1", 0, 0) EXCEPT !.accountId = 1])
    /\ accounts = (1 :> [enable |-> TRUE, totalGB |-> 0, expiryTime |-> 0,
                         up |-> 0, down |-> 0])
    /\ accountClients = {[account_id |-> 1, inbound_id |-> 1, client_email |-> "u1"]}
    /\ nextAccountId = 2
    /\ slaveConns = [s \in SlaveIds |-> s]
    /\ wsConns = [c \in ConnIds |-> Attached(c)]
    /\ status = [s \in SlaveIds |-> "online"]
    /\ pushes = {}
    /\ now = 1500
    /\ pass = NoPass
    /\ ops = 0
    /\ ingests = [s \in SlaveIds |-> NoIngest]
    /\ calls = [k \in CallIds |-> NoCall]
    /\ edits = [k \in EditIds |-> NoEdit]
    /\ secrets = [s \in SlaveIds |-> s]
    /\ agent = NoAgent
    /\ slaveOnlineClients = <<>>
    /\ slaveStats = [s \in SlaveIds |-> NoStats]
    /\ last = NoLast

\* the reports of the slaves handled statement by statement while the admin
\* updates the account
NextUsers ==
    \/ StatsUserFirst
    \/ StatsUserSave
    \/ StatsUserSync
    \/ LimitCascade
    \/ ExpiryCascade
    \/ Return
    \/ Tick
    \/ UpdateAccount

SpecUsers == InitUsers /\ [][NextUsers]_vars

\* the traffic counters of the reports of the slaves, their passes interleaved
NextScope ==
    \/ StatsRead
    \/ StatsInbound
    \/ StatsOutboundFirst
    \/ StatsOutboundSave
    \/ StatsPolicy
    \/ Return

\* the rows of table inbounds a push may find: each of either slave, enabled
\* or not
InboundTables ==
    [InboundIds -> {[slaveId |-> sl, enable |-> en, clients |-> {}, up |-> 0, down |-> 0] :
                        sl \in SlaveIds, en \in BOOLEAN}]

\* both slaves connected, over any table of inbounds
InitTemplate ==
    /\ slaves = SlaveIds
    /\ slaveSettings = [s \in SlaveIds |-> 0]
    /\ slaveCerts = {}
    /\ outboundTraffics = <<>>
    /\ inbounds \in InboundTables
    /\ clientTraffics = <<>>
    /\ accounts = <<>>
    /\ accountClients = {}
    /\ nextAccountId = 1
    /\ slaveConns = [s \in SlaveIds |-> s]
    /\ wsConns = [c \in ConnIds |-> Attached(c)]
    /\ status = [s \in SlaveIds |-> "online"]
    /\ pushes = {}
    /\ now = 1500
    /\ pass = NoPass
    /\ ops = 0
    /\ ingests = [s \in SlaveIds |-> NoIngest]
    /\ calls = [k \in CallIds |-> NoCall]
    /\ edits = [k \in EditIds |-> NoEdit]
    /\ secrets = [s \in SlaveIds |-> s]
    /\ agent = NoAgent
    /\ slaveOnlineClients = <<>>
    /\ slaveStats = [s \in SlaveIds |-> NoStats]
    /\ last = NoLast

NextTemplate == PushConfig

SpecTemplate == InitTemplate /\ [][NextTemplate]_vars

\* two accounts with no limits, and client u1 associated with the second
InitMirror ==
    /\ slaves = SlaveIds
    /\ slaveSettings = [s \in SlaveIds |-> 0]
    /\ slaveCerts = {}
    /\ outboundTraffics = <<>>
    /\ inbounds = InitInbounds
    /\ \E t \in ClientTotals, x \in ClientExpiryTimes :
          /\ (t = 0 \/ x = 0)
          /\ clientTraffics = ("u1" :> [NewTraffic("u1", t, x) EXCEPT !.accountId = 2])
    /\ accounts = [a \in {1, 2} |-> [enable |-> TRUE, totalGB |-> 0, expiryTime |-> 0,
                                     up |-> 0, down |-> 0]]
    /\ accountClients = {[account_id |-> 2, inbound_id |-> 1, client_email |-> "u1"]}
    /\ nextAccountId = 3
    /\ slaveConns = [s \in SlaveIds |-> s]
    /\ wsConns = [c \in ConnIds |-> Attached(c)]
    /\ status = [s \in SlaveIds |-> "online"]
    /\ pushes = {}
    /\ now = 1500
    /\ pass = NoPass
    /\ ops = 0
    /\ ingests = [s \in SlaveIds |-> NoIngest]
    /\ calls = [k \in CallIds |-> NoCall]
    /\ edits = [k \in EditIds |-> NoEdit]
    /\ secrets = [s \in SlaveIds |-> s]
    /\ agent = NoAgent
    /\ slaveOnlineClients = <<>>
    /\ slaveStats = [s \in SlaveIds |-> NoStats]
    /\ last = NoLast

\* the admin requests that change associations
NextMirror ==
    \/ AddClientToAccount
    \/ RemoveClientFromAccount
    \/ DelAccount

SpecMirror == InitMirror /\ [][NextMirror]_vars

\* the messages of two connected slaves, and the clock
NextDispatch ==
    \/ ReadMessage
    \/ Tick
    \/ Return

SpecDispatch == Init /\ [][NextDispatch]_vars

\* the online lists of the reports of two slaves
NextOnline ==
    \/ StatsOnline
    \/ StatsPolicy
    \/ Return

SpecOnline == Init /\ [][NextOnline]_vars

\* both slaves connected, and a client with no quota and no expiry
InitScope ==
    /\ Init
    /\ clientTraffics = ("u1" :> NewTraffic("u1", 0, 0))

SpecScope == InitScope /\ [][NextScope]_vars

\* the first slave is connected, the second has not dialled yet
InitGone ==
    /\ InitStore
    /\ slaveConns = (1 :> 1)
    /\ wsConns = [c \in ConnIds |-> IF c = 1 THEN Attached(c) ELSE Gone(0)]
    /\ status = [s \in SlaveIds |-> IF s = 1 THEN "online" ELSE "offline"]

\* reports handled statement by statement while the admin deletes slaves
NextGone ==
    \/ StatsRead
    \/ StatsInbound
    \/ StatsOutboundFirst
    \/ StatsOutboundSave
    \/ StatsPolicy
    \/ Return
    \/ delSlave

SpecGone == InitGone /\ [][NextGone]_vars

\* the admin requests that add an outbound rule, statement by statement, and
\* the pushes they start to a slave whose connection may drop
NextEdit ==
    \/ AddOutboundGet
    \/ AddOutboundSave
    \/ PushAssemble
    \/ PushWrite
    \/ LinkDrop
    \/ ReadFail
    \/ SetOffline

SpecEdit == InitGone /\ [][NextEdit]_vars

(* ------------------------------- claims -------------------------------- *)
\* the client entries <<inbound, email>> of the enabled inbounds of slave s
Entries(s) ==
    {<<i, e>> \in InboundIds \X Emails :
        /\ i \in DOMAIN inbounds /\ inbounds[i].slaveId = s /\ inbounds[i].enable
        /\ e \in inbounds[i].clients}

Tripped(t) ==
    {e \in DOMAIN pass.pre.clientTraffics :
        LET row == pass.pre.clientTraffics[e]
        IN  /\ row.inboundId \in DOMAIN inbounds
            /\ inbounds[row.inboundId].slaveId = pass.slave
            /\ row.enable
            /\ \/ row.total > 0 /\ row.up + row.down >= row.total
               \/ row.expiryTime > 0 /\ row.expiryTime <= t}

\* the account flag keeps the client of row e in an assembled config
KeptByAccount(e) ==
    /\ clientTraffics[e].accountId \in DOMAIN accounts
    /\ accounts[clientTraffics[e].accountId].enable

UsedAtEntry(a) ==
    LET es == {x.client_email : x \in {y \in accountClients : y.account_id = a}}
                 \cap DOMAIN pass.pre.clientTraffics
    IN  SumOver(pass.pre.clientTraffics, es, "up") +
        SumOver(pass.pre.clientTraffics, es, "down")

\* account a entered the pass over its quota, or expired
OverQuotaAtEntry(a) ==
    pass.pre.accounts[a].totalGB > 0 /\
    UsedAtEntry(a) >= pass.pre.accounts[a].totalGB * 1024 * 1024 * 1024

ExpiredAtEntry(a) ==
    pass.pre.accounts[a].expiryTime > 0 /\ pass.pre.accounts[a].expiryTime <= now

C4_PushAllAffected ==
    pass.pc = "done" =>
        \A a \in DOMAIN pass.pre.accounts :
            pass.pre.accounts[a].enable /\ ~accounts[a].enable =>
                \A i \in DOMAIN inbounds :
                    (\E x \in accountClients :
                        x.account_id = a /\ x.client_email \in inbounds[i].clients)
                    => inbounds[i].slaveId \in last.pushed

\* the emails associated with account a in the store st (a record of rows),
\* through account_clients or through client_traffics.account_id
Associated(ac, ct, a) ==
    {e \in DOMAIN ct :
        ct[e].accountId = a \/ (\E x \in ac : x.account_id = a /\ x.client_email = e)}

\* C5 (invariant I3): between operations, every ClientTraffic row associated
\* with a disabled account (via AccountClient or account_id) is disabled.
C5_DisabledAccountDisablesClients ==
    pass.pc \in {"idle", "done"} =>
        \A a \in DOMAIN accounts :
            ~accounts[a].enable =>
                \A e \in Associated(accountClients, clientTraffics, a) :
                    ~clientTraffics[e].enable

\* C6: a step of UpdateAccount or of the policy that changes Account.enable
\* leaves every associated ClientTraffic row with that same enable value.
C6_EnableCascadeAtomic ==
    [][\A a \in DOMAIN accounts \cap DOMAIN accounts' :
          /\ accounts'[a].enable # accounts[a].enable
          /\ last'.op # "ResetAccountTraffic"
          => \A e \in Associated(accountClients', clientTraffics', a) :
                clientTraffics'[e].enable = accounts'[a].enable]_vars

\* the live traffic of the rows of the emails account_clients links to a
LiveUsage(a) ==
    LET es == {x.client_email : x \in {y \in accountClients : y.account_id = a}}
                 \cap DOMAIN clientTraffics
    IN  SumOver(clientTraffics, es, "up") + SumOver(clientTraffics, es, "down")

C8_ResetAccountTraffic ==
    last.op = "ResetAccountTraffic" /\ last.ok /\ last.id \in DOMAIN accounts =>
        LET a == last.id
            assoc == {x \in accountClients : x.account_id = a}
        IN  /\ accounts[a].up = 0 /\ accounts[a].down = 0 /\ accounts[a].enable
            /\ \A x \in assoc :
                  x.client_email \in DOMAIN clientTraffics =>
                      LET row == clientTraffics[x.client_email]
                      IN  row.up = 0 /\ row.down = 0 /\ row.enable
            /\ last.pushed =
                  {inbounds[x.inbound_id].slaveId :
                      x \in {y \in assoc : y.inbound_id \in DOMAIN inbounds}}
            /\ \A x \in assoc :
                  /\ x.inbound_id \in DOMAIN inbounds
                  /\ inbounds[x.inbound_id].slaveId \in DOMAIN last.cfg
                  => <<x.inbound_id, x.client_email>> \in
                        last.cfg[inbounds[x.inbound_id].slaveId]

\* the inbounds of slave s before the step
InboundsBefore(s) == {i \in DOMAIN inbounds : inbounds[i].slaveId = s}

\* C9 (P3): once DeleteSlave(s) has committed, no row of Inbound,
\* ClientTraffic, OutboundTraffics, SlaveCert, SlaveSetting or AccountClient
\* references s or an inbound that belonged to s, and the accounts are all
\* still there.
C9_CascadeDelete ==
    [][last'.op = "delSlave" /\ last'.ok /\ last'.fail = "none" =>
          LET s == last'.id
              inbs == InboundsBefore(s)
          IN  /\ s \notin slaves'
              /\ \A i \in DOMAIN inbounds' : inbounds'[i].slaveId # s /\ i \notin inbs
              /\ \A e \in DOMAIN clientTraffics' : clientTraffics'[e].inboundId \notin inbs
              /\ \A k \in DOMAIN outboundTraffics' : k[1] # s
              /\ \A c \in slaveCerts' : c[1] # s
              /\ s \notin DOMAIN slaveSettings'
              /\ \A x \in accountClients' : x.inbound_id \notin inbs
              /\ accounts' = accounts]_vars

\* C10: DeleteSlave is all-or-nothing: a call that succeeds removes the slave
\* row, a call that fails removes no row of any table, and the live link of
\* the slave is detached only by a call that committed.
C10_AllOrNothing ==
    [][last'.op = "delSlave" =>
          /\ last'.ok => last'.id \notin slaves'
          /\ ~last'.ok =>
                /\ slaves' = slaves /\ slaveSettings' = slaveSettings
                /\ slaveCerts' = slaveCerts /\ outboundTraffics' = outboundTraffics
                /\ inbounds' = inbounds /\ clientTraffics' = clientTraffics
                /\ accounts' = accounts /\ accountClients' = accountClients
          /\ slaveConns' # slaveConns => last'.ok]_vars

\* a step of an operation that is no explicit reset and no delete
NoResetStep == last'.op \notin {"ResetAccountTraffic", "DelAccount", "delSlave"}

\* C11 (P1): over a step that is no explicit reset, up and down of every
\* ClientTraffic, OutboundTraffics and Account row never decrease.
C11_MonotoneCounters ==
    [][NoResetStep =>
          /\ \A e \in DOMAIN clientTraffics \cap DOMAIN clientTraffics' :
                /\ clientTraffics'[e].up >= clientTraffics[e].up
                /\ clientTraffics'[e].down >= clientTraffics[e].down
          /\ \A k \in DOMAIN outboundTraffics \cap DOMAIN outboundTraffics' :
                /\ outboundTraffics'[k].up >= outboundTraffics[k].up
                /\ outboundTraffics'[k].down >= outboundTraffics[k].down
          /\ \A a \in DOMAIN accounts \cap DOMAIN accounts' :
                /\ accounts'[a].up >= accounts[a].up
                /\ accounts'[a].down >= accounts[a].down]_vars

\* config x was assembled from an older store state than config y: only
\* addOutbound changes what the store gives a slave here, and it adds a rule
Older(x, y) == x.outbounds < y.outbounds

\* C12 (P7): the first frame a connection gets is an update_config_full not
\* older than the store state at attach time, and no config older than that
\* first frame arrives on the connection after it.
C12_ReconnectConvergence ==
    \A c \in ConnIds :
        wsConns[c].first.type # "none" =>
            /\ wsConns[c].first.type = "update_config_full"
            /\ ~Older(wsConns[c].first.cfg, wsConns[c].attached)
            /\ ~Older(wsConns[c].lastf.cfg, wsConns[c].first.cfg)

\* slave s gets a connection registered that it did not have
Attaches(s) ==
    /\ s \in DOMAIN slaveConns'
    /\ s \notin DOMAIN slaveConns \/ slaveConns'[s] # slaveConns[s]

Quiet(s) ==
    \A c \in ConnIds :
        wsConns[c].slave = s =>
            \/ wsConns[c].pc = "done"
            \/ wsConns[c].pc = "read" /\ wsConns[c].open /\ ~wsConns[c].closed

\* C14: whenever slave s is quiet and a heartbeat has been processed since its
\* last attach, slaves.status of s is online if and only if the registry holds
\* a connection for s.
C14_StatusMatchesRegistry ==
    \A s \in LinkSlaves :
        Quiet(s) =>
            IF s \in DOMAIN slaveConns
            THEN wsConns[slaveConns[s]].beat => status[s] = "online"
            ELSE status[s] = "offline"

\* the PushConfig calls for slave s that have read the store and not yet
\* written their frame
Assembled(s) == {p \in pushes : p.slave = s /\ p.pc = "write"}

\* the connection registered for s works and has been sent a config
Served(s) ==
    /\ s \in DOMAIN slaveConns
    /\ wsConns[slaveConns[s]].open /\ ~wsConns[slaveConns[s]].closed
    /\ ~wsConns[slaveConns[s]].wfail
    /\ wsConns[slaveConns[s]].lastf.type = "update_config_full"

\* once no push for s is in progress, the last config its working connection
\* was sent is the one the store gives now
LastFrameCurrent(s) ==
    ({p \in pushes : p.slave = s} = {} /\ Served(s)) =>
        wsConns[slaveConns[s]].lastf.cfg = Current(s)

\* C15: at most one push per slave is between reading the store and writing
\* its frame, and the last config a slave is sent is that of the last commit.
C15_PushesSerialized ==
    \A s \in LinkSlaves : Cardinality(Assembled(s)) <= 1 /\ LastFrameCurrent(s)

\* connection c is registered, its transport is up and nothing has closed it
Alive(c) ==
    /\ \E s \in DOMAIN slaveConns : slaveConns[s] = c
    /\ wsConns[c].pc = "read" /\ wsConns[c].open /\ ~wsConns[c].closed

\* C16 (link liveness): a registered connection that has been silent for
\* MaxIdle system-stats intervals while its transport stays open is eventually
\* detached, and the status of its slave set to offline.
C16_LinkLiveness ==
    \A c \in ConnIds :
        [](Alive(c) /\ wsConns[c].idle = MaxIdle =>
              <>(~Alive(c) \/ wsConns[c].idle < MaxIdle))

\* C18: a connection on which a frame write has failed is eventually detached
\* from the registry.
C18_DetachOnWriteError ==
    \A c \in ConnIds :
        []((wsConns[c].wfail /\ \E s \in DOMAIN slaveConns : slaveConns[s] = c) =>
              <>(\A s \in DOMAIN slaveConns : slaveConns[s] # c))

\* the handlers of the inbound controller that change rows
InboundMutations ==
    {"addInbound", "importInbound", "updateInbound", "delInbound", "addInboundClient",
     "updateInboundClient", "delInboundClient", "delInboundClientByEmail"}

\* C17: a PushConfig or RestartSlaveXray for a slave with no registered
\* connection returns the not-connected error, writes no frame, changes no
\* store row and leaves no push behind; the admin request whose rows were
\* committed has reported success.
C17_NotConnected ==
    [][/\ (last'.op \in {"PushConfig", "RestartSlaveXray"}
             /\ last'.id \notin DOMAIN slaveConns) =>
             /\ ~last'.ok /\ last'.fail = "notconnected"
             /\ UNCHANGED <<store, slaveConns, wsConns, status>>
             /\ pushes' \subseteq pushes
       /\ (last'.op \in InboundMutations /\ store' # store) => last'.ok]_vars

\* a push for the slave of a committed inbound found no connection
C17_Witness ==
    /\ last.op = "PushConfig" /\ last.fail = "notconnected"
    /\ \E i \in DOMAIN inbounds : inbounds[i].slaveId = last.id

\* the slave that owns inbound i after the step, or owned it when the step
\* deleted it
OwnerOver(i) ==
    IF i \in DOMAIN inbounds' THEN inbounds'[i].slaveId ELSE inbounds[i].slaveId

\* C19 (push after mutation): every successful mutation of an inbound or of
\* its client list makes a push attempt to the slave that owns the inbound.
C19_PushAfterMutation ==
    [][(last'.op \in InboundMutations /\ last'.ok /\ OwnerOver(last'.id) > 0) =>
           OwnerOver(last'.id) \in last'.pushed]_vars

\* the step is an updateInbound that moves inbound i from slave old to new
Moves(i, old, new) ==
    /\ last'.op = "updateInbound" /\ last'.ok /\ last'.id = i
    /\ inbounds[i].slaveId = old /\ inbounds'[i].slaveId = new
    /\ old # new /\ old >= 1 /\ new >= 1

\* the inbound blocks of the config the store gives slave s after the step
BlocksAfter(s) ==
    XrayConfig(slaveSettings', inbounds', clientTraffics', accounts', s).inbounds

\* C20 as stated: the config for the new slave contains the inbound whenever
\* an updateInbound moves it
C20_Original ==
    [][\A i \in InboundIds, old, new \in SlaveIds :
           Moves(i, old, new) =>
              /\ last'.pushed = {old, new}
              /\ i \notin BlocksAfter(old)
              /\ i \in BlocksAfter(new)]_vars

\* C20: when updateInbound moves an inbound from slave old to slave new, a push
\* is attempted to both; the config then assembled for old does not contain
\* the inbound, and the one for new contains it if and only if the inbound is
\* enabled.
C20_SlaveChange ==
    [][\A i \in InboundIds, old, new \in SlaveIds :
           Moves(i, old, new) =>
              /\ last'.pushed = {old, new}
              /\ {p \in pushes' : p.pc = "assemble"} =
                    {NewPush(old, 0), NewPush(new, 0)}
              /\ i \notin BlocksAfter(old)
              /\ i \in BlocksAfter(new) <=> inbounds'[i].enable]_vars

\* an enabled inbound has just been moved from slave 1 to slave 2
C20_Witness ==
    /\ last.op = "updateInbound" /\ last.ok /\ last.pushed = {1, 2}
    /\ inbounds[last.id].slaveId = 2 /\ inbounds[last.id].enable

\* the step belongs to the pass of slave s
PassStep(s) == ingests'[s] # ingests[s]

\* C21: a step of the traffic_stats pass of slave s changes the counters of an
\* inbound row only if the row has slave_id = s and its tag is in the report,
\* and changes or creates outbound_traffics rows only with slave_id = s; the
\* save of an outbound row adds the report's deltas to what the row held, so
\* the rows of two slaves for one tag accumulate apart, however the two
\* passes interleave.
C21_SlaveScoped ==
    [][\A s \in SlaveIds :
          PassStep(s) =>
             /\ DOMAIN inbounds' = DOMAIN inbounds
             /\ \A i \in DOMAIN inbounds :
                   inbounds'[i] # inbounds[i] =>
                      inbounds[i].slaveId = s /\ i \in ingests[s].inbounds
             /\ DOMAIN outboundTraffics \subseteq DOMAIN outboundTraffics'
             /\ \A k \in DOMAIN outboundTraffics' :
                   (k \notin DOMAIN outboundTraffics
                       \/ outboundTraffics'[k] # outboundTraffics[k]) => k[1] = s
             /\ ingests[s].pc = "save" =>
                   LET k == <<s, ingests[s].row.tag>>
                   IN  /\ outboundTraffics'[k].up = outboundTraffics[k].up + Delta
                       /\ outboundTraffics'[k].down = outboundTraffics[k].down + Delta]_vars

\* both slaves have reported the outbound tag direct, and slave 1 the tag of
\* the inbound of slave 2 with it; slave 1 has saved its outbound row while
\* slave 2 holds its own loaded, and no inbound row has counted
C21_Witness ==
    /\ ingests[1].pc = "policy" /\ ingests[1].named = {2}
    /\ <<1, "direct">> \in DOMAIN outboundTraffics
    /\ outboundTraffics[<<1, "direct">>].up = Delta
    /\ ingests[2].pc = "save" /\ ingests[2].row.tag = "direct"
    /\ outboundTraffics[<<2, "direct">>].up = 0
    /\ \A i \in DOMAIN inbounds : inbounds[i].up = 0

\* the domains of the slave_certs rows of slave s
CertDomains(sc, s) == {c[2] : c \in {x \in sc : x[1] = s}}

\* C22: after a cert_report of slave s is processed, the domains stored for s
\* are exactly those of the report, and the rows of the other slaves are as
\* they were.
C22_CertReportAuthoritative ==
    [][last'.op = "ProcessCertReport" =>
          /\ CertDomains(slaveCerts', last'.id) = last'.domains
          /\ \A s \in SlaveIds \ {last'.id} :
                CertDomains(slaveCerts', s) = CertDomains(slaveCerts, s)]_vars

\* C23: after a successful delete of account a no account_clients row has
\* account_id = a, every client_traffics row that was associated with a
\* (through account_clients or through its account_id) has account_id = 0,
\* the accounts row is gone, and a push was attempted to the slave of every
\* inbound the account_clients rows of a named before the delete.
C23_DeleteAccount ==
    [][last'.op = "DelAccount" /\ last'.ok =>
          LET a == last'.id
              prior == {x \in accountClients : x.account_id = a}
          IN  /\ \A x \in accountClients' : x.account_id # a
              /\ \A e \in Associated(accountClients, clientTraffics, a) :
                    e \in DOMAIN clientTraffics' /\ clientTraffics'[e].accountId = 0
              /\ a \notin DOMAIN accounts'
              /\ \A x \in prior :
                    x.inbound_id \in DOMAIN inbounds =>
                        inbounds[x.inbound_id].slaveId \in last'.pushed]_vars

\* an account that had been created and had a client associated has been
\* deleted: its slave was pushed and no row refers to the account
C23_Witness ==
    /\ last.op = "DelAccount" /\ last.ok /\ last.pushed # {}
    /\ nextAccountId > last.id
    /\ last.id \notin DOMAIN accounts
    /\ \E e \in DOMAIN clientTraffics : clientTraffics[e].accountId = 0

\* C24: every inbound row an add, update or import leaves behind has
\* slave_id >= 1, and a request of these that is rejected changes no row.
C24_SlaveIdMandatory ==
    [][last'.op \in {"addInbound", "updateInbound", "importInbound"} =>
          /\ \A i \in DOMAIN inbounds' :
                (i \notin DOMAIN inbounds \/ inbounds'[i] # inbounds[i]) =>
                    inbounds'[i].slaveId >= 1
          /\ ~last'.ok => store' = store]_vars

\* C25: no two rows of slaves have the same secret, so a handshake secret
\* identifies at most one slave.
C25_SecretUnique ==
    \A x \in {secrets[s] : s \in slaves} :
        Cardinality(GetSlaveBySecret(slaves, x)) <= 1

C27_PolicyIdempotent ==
    (pass.pc = "done" /\ pass.users = {}) =>
        /\ DOMAIN clientTraffics = DOMAIN pass.pre.clientTraffics
        /\ \A e \in DOMAIN clientTraffics :
              clientTraffics[e].enable = pass.pre.clientTraffics[e].enable
        /\ DOMAIN accounts = DOMAIN pass.pre.accounts
        /\ \A a \in DOMAIN accounts : accounts[a].enable = pass.pre.accounts[a].enable
        /\ last.pushed = {}

\* a second pass has ended in a store where an account and a client of the
\* reporting slave are disabled and over their limits
C27_Witness ==
    /\ pass.pc = "done" /\ pass.users = {}
    /\ \E a \in DOMAIN accounts :
          ~accounts[a].enable /\ accounts[a].totalGB > 0
              /\ LiveUsage(a) >= accounts[a].totalGB * GB
    /\ \E e \in DOMAIN clientTraffics :
          /\ ~clientTraffics[e].enable
          /\ inbounds[clientTraffics[e].inboundId].slaveId = pass.slave
          /\ ClientInvalid(clientTraffics[e], now)

\* the link of the agent has failed: reads, writes or both return errors
Disconnected ==
    /\ agent.pc = "read"
    /\ agent.conn = "open"
    /\ agent.readErr \/ agent.writeErr

\* C28: after any disconnect of the agent link (read error, failed heartbeat
\* write, or both in either order) the agent process keeps running and
\* eventually attempts a new connection, unless it is interrupted.
C28_AgentReconnects ==
    [](Disconnected => <>(agent.pc \in {"dial", "stopped"}))

\* the registry entries that hold a connection of slave s
LinksOf(sc, cs, s) == {c \in ConnIds : \E k \in DOMAIN sc : sc[k] = c /\ cs[c].slave = s}

\* C29 (attach): when connectSlave attaches a connection for a slave that has
\* one registered, the step closes the old connection and registers the new
\* one: before the step the registry holds the old one, after it the new one
\* and no other connection of the slave, and a send after the step finds an
\* entry.
C29_AttachAtomic ==
    [][\A s \in SlaveIds :
          (last'.op = "connectSlave" /\ last'.ok /\ last'.id = s
                /\ s \in DOMAIN slaveConns) =>
              /\ s \in DOMAIN slaveConns'
              /\ slaveConns'[s] # slaveConns[s]
              /\ wsConns'[slaveConns[s]].closed
              /\ wsConns'[slaveConns'[s]].pc = "push"
              /\ ~wsConns'[slaveConns'[s]].closed
              /\ LinksOf(slaveConns', wsConns', s) = {slaveConns'[s]}
              /\ Send(slaveConns', wsConns', s, NoFrame, FALSE).err = "none"]_vars

\* a connection of slave 1 has just been attached while the connection it
\* replaced is closed and its handler has not yet seen its read fail
C29_Witness ==
    /\ last.op = "connectSlave" /\ last.ok /\ last.id = 1
    /\ 1 \in DOMAIN slaveConns
    /\ \E c \in ConnIds :
          /\ c # slaveConns[1]
          /\ wsConns[c].slave = 1 /\ wsConns[c].closed
          /\ wsConns[c].pc \in {"push", "read"}

\* C30: when the handler of a connection that is no longer the registered one
\* of its slave detaches (its read has failed; RemoveSlaveConn, then
\* UpdateSlaveStatus offline), the connection registered for the slave stays
\* registered, is not closed by the step, and the slave's status is unchanged.
C30_StaleDetachHarmless ==
    [][\A c \in ConnIds :
          LET s == wsConns[c].slave IN
          (/\ s \in DOMAIN slaveConns
           /\ slaveConns[s] # c
           /\ wsConns[c].pc \in {"read", "offline"}
           /\ wsConns'[c].pc # wsConns[c].pc) =>
              /\ s \in DOMAIN slaveConns'
              /\ slaveConns'[s] = slaveConns[s]
              /\ wsConns'[slaveConns[s]].closed = wsConns[slaveConns[s]].closed
              /\ status'[s] = status[s]]_vars

\* C40: in every interleaving of the read loop and the heartbeat goroutine of
\* a connection, close(done) is executed at most once: the agent never panics
\* on a closed channel.
C40_DoneClosedOnce == agent.pc # "panic"

\* C39: the step that ingests a traffic_stats report of slave s changes the
\* counters and the enable flag of a client_traffics row only if the row's
\* inbound is owned by s.
C39_ReportScoped ==
    [][(pass.pc = "idle" /\ pass'.pc # "idle") =>
          \A e \in DOMAIN clientTraffics :
              (e \in DOMAIN clientTraffics' /\ clientTraffics'[e] # clientTraffics[e]) =>
                  /\ clientTraffics[e].inboundId \in DOMAIN inbounds
                  /\ inbounds[clientTraffics[e].inboundId].slaveId = pass'.slave]_vars

\* the online set the map holds for slave s
OnlineSet(oc, s) == IF s \in DOMAIN oc THEN Range(oc[s]) ELSE {}

\* C32: after the online block of a traffic_stats message of slave s, the
\* online set of s is exactly the message's online_clients (none, or an empty
\* list, gives the empty set), the sets of the other slaves are unchanged,
\* and GetAllOnlineClients returns the union of the sets without duplicates.
C32_OnlineReplaced ==
    [][\A s \in SlaveIds :
          (ingests[s].pc = "idle" /\ ingests'[s].pc = "policy") =>
              /\ OnlineSet(slaveOnlineClients', s) =
                    Range(ingests'[s].online.list) \ {""}
              /\ \A k \in SlaveIds \ {s} :
                    OnlineSet(slaveOnlineClients', k) = OnlineSet(slaveOnlineClients, k)
              /\ \A q \in GetAllOnlineClients(slaveOnlineClients') :
                    /\ Range(q) = UNION {OnlineSet(slaveOnlineClients', k) : k \in SlaveIds}
                    /\ Len(q) = Cardinality(Range(q))]_vars

\* C33: lastSeen of a slave never lags behind the most recent recognized
\* message read off its link: once a message has been handled, lastSeen is
\* the second that message was processed in, or a later one.
C33_LastSeenCurrent ==
    \A s \in SlaveIds :
        (slaveStats[s].type # "none" /\ Idle) =>
            slaveStats[s].lastSeen >= slaveStats[s].at \div MsPerSec

\* C34: each message is handled by the handler of its type: traffic_stats by
\* the traffic ingest, cert_report by the certificate upsert, a message with
\* no type by the system-stats handler; only the last overwrites systemStats.
C34_DispatchByType ==
    [][(pass.pc = "idle" /\ last'.op \in {"UpdateSlaveStatus", "traffic_stats", "cert_report"}) =>
          LET s == last'.id
              t == slaveStats'[s].type
          IN  /\ t = "traffic_stats" => last'.op = "traffic_stats"
              /\ t = "cert_report" => last'.op = "cert_report"
              /\ t = "" => last'.op = "UpdateSlaveStatus"
              /\ t # "" => slaveStats'[s].systemStats = slaveStats[s].systemStats]_vars

C36_AssociationMirror ==
    Idle =>
        \A e \in DOMAIN clientTraffics :
            \A a \in {clientTraffics[e].accountId} \cup {x.account_id : x \in accountClients} :
                a > 0 =>
                    (clientTraffics[e].accountId = a <=>
                        \E x \in accountClients : x.account_id = a /\ x.client_email = e)

\* C37: once the row of slave s is deleted, the handling of a message that
\* was read off its link creates no row that references s: no step of its
\* ProcessTrafficStats leaves an outbound_traffics or slave_certs row of s.
C37_NoRowAfterDelete ==
    [][\A s \in SlaveIds :
          (s \notin slaves /\ PassStep(s)) =>
              /\ {k \in DOMAIN outboundTraffics' : k[1] = s} = {}
              /\ {c \in slaveCerts' : c[1] = s} = {}]_vars

\* C38: an admin edit of a template that returns success takes effect on top
\* of what is stored: the rule an AddOutbound adds is one more than the
\* template held when it saved, so that no earlier edit is overwritten.
C38_EditsBothTakeEffect ==
    [][\A k \in EditIds :
          (edits[k].pc = "save" /\ edits'[k].pc = "idle") =>
              GetXrayConfigForSlave(slaveSettings', edits[k].slave)
                  = GetXrayConfigForSlave(slaveSettings, edits[k].slave) + 1]_vars

\* C31: the Save of the per-user counter update changes only the counters of
\* the row, and adds its deltas to what is stored: enable, account_id and the
\* other columns keep the values they have at the time of the write, and the
\* other rows are unchanged.
C31_CounterUpdateOnly ==
    [][\A s \in SlaveIds :
          (ingests[s].pc = "user" /\ ingests'[s].pc = "sync") =>
              LET e == ingests[s].user.email
              IN  /\ DOMAIN clientTraffics' = DOMAIN clientTraffics \cup {e}
                  /\ \A x \in DOMAIN clientTraffics :
                        clientTraffics'[x] =
                            IF x = e
                            THEN [clientTraffics[x] EXCEPT !.up = @ + Delta,
                                                           !.down = @ + Delta]
                            ELSE clientTraffics[x]]_vars

====
